---- MODULE Spec2Model ----
(***************************************************************************)
(* Moderation-gated road records of whobuiltmyroad.                        *)
(*                                                                         *)
(* The state is the backing store (the roads and feedback collections),    *)
(* the blob store holding uploaded images, the wall clock, and the         *)
(* response of the request handled last.  Every HTTP handler of            *)
(* app/routers/roads.py and app/routers/admin.py, and the bulk importer's  *)
(* per-element step, is one action.  SpecConc runs the writing handlers    *)
(* two at a time, each split at its awaits.                                *)
(*                                                                         *)
(* Optional values (Python None / a value) are sequences of length 0 / 1.  *)
(***************************************************************************)
EXTENDS Integers, Sequences, FiniteSets, TLC

\* ------------------------------------------------------------------ bounds
MaxRoads == 1        \* ObjectIds the roads collection hands out
MaxFeedback == 1     \* ObjectIds the feedback collection hands out
MaxBlobs == 2        \* uuid4 object names the blob store hands out
MaxClock == 1        \* readings of the wall clock after the first

\* ------------------------------------------------------- optional values
None == <<>>
Some(v) == <<v>>
IsNone(o) == o = <<>>
Get(o) == o[1]

\* ---------------------------------------------------------- HTTP statuses
HTTP_200_OK == 200
HTTP_201_CREATED == 201
HTTP_400_BAD_REQUEST == 400
HTTP_401_UNAUTHORIZED == 401
HTTP_403_FORBIDDEN == 403
HTTP_404_NOT_FOUND == 404
HTTP_500_INTERNAL_SERVER_ERROR == 500
HTTP_503_SERVICE_UNAVAILABLE == 503

\* ------------------------------------------------------------ credentials
ADMIN_API_TOKEN == "admin-token"

\* the users collection: registration is outside the model, the users are fixed
users == { [_id |-> "u1", username |-> "alice", is_active |-> TRUE],
           [_id |-> "u3", username |-> "carol", is_active |-> FALSE] }

\* jwt.decode: the "sub" of a token signed with SECRET_KEY, None on JWTError
JwtDecode(token) ==
    CASE token = "jwt-u1" -> Some("u1")
      [] token = "jwt-u3" -> Some("u3")
      [] OTHER -> None

Tokens == {"jwt-u1", "jwt-u3", ADMIN_API_TOKEN}

\* get_current_user: the user, or the HTTPException it raises (status 0
\* means the dependency returned)
get_current_user(token) ==
    LET sub == JwtDecode(token)
        found == IF IsNone(sub) THEN {} ELSE {u \in users : u._id = Get(sub)}
        credentials_exception == [status |-> HTTP_401_UNAUTHORIZED,
                                  detail |-> "Could not validate credentials",
                                  username |-> ""]
    IN IF IsNone(sub) THEN credentials_exception
       ELSE IF found = {} THEN credentials_exception
       ELSE LET user == CHOOSE u \in found : TRUE
            IN IF ~user.is_active
               THEN [status |-> HTTP_400_BAD_REQUEST, detail |-> "Inactive user",
                     username |-> ""]
               ELSE [status |-> 0, detail |-> "", username |-> user.username]

verify_admin_token_open(token) == 0

\* verify_admin_token: 0 when the dependency returned {"admin": True}
verify_admin_token(token) ==
    IF token # ADMIN_API_TOKEN THEN HTTP_403_FORBIDDEN ELSE 0

\* ---------------------------------------------------------------- ObjectId
ValidObjectIds == 1..(MaxRoads + 1)
MalformedId == 0
RoadIdInputs == ValidObjectIds \cup {MalformedId}
ObjectIdAlwaysValid(road_id) == TRUE

\* ObjectId.is_valid
ObjectIdIsValid(road_id) == road_id \in ValidObjectIds

\* ---------------------------------------------------------------- geometry
LineString(coords) == [type |-> "LineString", coordinates |-> coords]
UserLine == LineString(<< <<75, 15>>, <<76, 16>> >>)

\* the dict {}: an object without keys
EmptyDict == << >>

\* Python truthiness of an optional str / optional dict
TruthyStr(o) == ~IsNone(o) /\ Get(o) # ""
TruthyDict(o) == ~IsNone(o) /\ Get(o) # EmptyDict

\* ------------------------------------------------------- request payloads
\* The osm_way_id and geometry attributes the handlers read off RoadCreate
\* and RoadUpdate: optional, None when the request leaves them out.
OsmWayIdInputs == {None, Some("w1")}
GeometryInputs == {None, Some(UserLine), Some(EmptyDict)}

\* schemas.RoadCreate: every descriptive field required, extra_fields {} by default
RoadCreate(osm_way_id, geometry) ==
    [road_name |-> "n1",
     location |-> [lat |-> 15, lng |-> 75],
     contractor |-> "c1",
     approved_by |-> "a1",
     total_cost |-> "t1",
     promised_completion_date |-> "p1",
     actual_completion_date |-> "d1",
     maintenance_firm |-> "m1",
     status |-> "s1",
     extra_fields |-> {},
     osm_way_id |-> osm_way_id,
     geometry |-> geometry]

\* nothing, a way id, a geometry, both, and the empty geometry object
RoadCreateInputs ==
    {RoadCreate(o, g) : o \in OsmWayIdInputs, g \in GeometryInputs \ {Some(EmptyDict)}}
        \cup {RoadCreate(None, Some(EmptyDict))}

\* schemas.RoadUpdate: every field optional
RoadUpdate(road_name, status, osm_way_id, geometry) ==
    [road_name |-> road_name,
     location |-> None,
     contractor |-> None,
     approved_by |-> None,
     total_cost |-> None,
     promised_completion_date |-> None,
     actual_completion_date |-> None,
     maintenance_firm |-> None,
     status |-> status,
     extra_fields |-> None,
     osm_way_id |-> osm_way_id,
     geometry |-> geometry]

\* no field, a descriptive field, a way id with and without a descriptive
\* field, a geometry (a line-string or the empty object), a way id and a geometry
RoadUpdateInputs ==
    {RoadUpdate(n, None, o, None) : n \in {None, Some("n2")}, o \in OsmWayIdInputs}
        \cup {RoadUpdate(None, None, None, g) : g \in GeometryInputs}
        \cup {RoadUpdate(None, None, o, Some(UserLine)) : o \in OsmWayIdInputs}

\* ------------------------------------------------------ OSM collaborator
\* an Overpass element: type, id, tags (optional name / ref / alt_name /
\* highway), geometry (the list of nodes, as <<lon, lat>> pairs)
Tags(name, ref) == [name |-> name, ref |-> ref, alt_name |-> None, highway |-> Some("trunk"),
                    surface |-> None, lanes |-> None]
WayElement == [type |-> "way", id |-> "w1", tags |-> Tags(Some("NH 44"), None),
               geometry |-> << <<75, 15>>, <<77, 17>>, <<78, 18>> >>]
BareWayElement == [type |-> "way", id |-> "w2", tags |-> Tags(None, Some("SH 1")),
                   geometry |-> << >>]
NodeElement == [type |-> "node", id |-> "w3", tags |-> Tags(None, None),
                geometry |-> << >>]
\* the way w1 as Overpass delivers it when it has no "geometry" member
WayWithoutNodes == [WayElement EXCEPT !.geometry = << >>]

\* query_overpass: the JSON of the answer (status 0), or the HTTPException
\* it raises on an HTTP error status / a request error (connection failure,
\* timeout)
OverpassOutcomes ==
    { [status |-> 0, detail |-> "", elements |-> << >>],
      [status |-> 0, detail |-> "", elements |-> <<WayElement>>],
      [status |-> 0, detail |-> "", elements |-> <<WayWithoutNodes>>],
      [status |-> HTTP_503_SERVICE_UNAVAILABLE,
       detail |-> "Overpass API service temporarily unavailable", elements |-> << >>],
      [status |-> HTTP_503_SERVICE_UNAVAILABLE,
       detail |-> "Failed to connect to Overpass API", elements |-> << >>] }

LookupNeverRaises(result) == FALSE

\* `await get_way_by_id(...)` in a handler without try/except: the
\* HTTPException of query_overpass leaves the handler
LookupRaised(result) == result.status # 0

\* get_way_by_id on an answer of query_overpass: None, or the way data
get_way_by_id(result) ==
    IF result.elements = << >> THEN None
    ELSE LET element == result.elements[1]
         IN Some([osm_way_id |-> element.id,
                  name |-> element.tags.name,
                  geometry |-> LineString(element.geometry),
                  tags |-> element.tags])

\* ------------------------------------------------------------------ state
VARIABLES
    roads,            \* db.roads: _id -> document
    feedback,         \* db.feedback: _id -> document
    roadsIssued,      \* ObjectIds handed out by db.roads.insert_one
    feedbackIssued,   \* ObjectIds handed out by db.feedback.insert_one
    blobs,            \* object names present in the R2 bucket
    blobsIssued,      \* uuid4 names handed out by upload_file
    now,              \* the last reading of datetime.now(timezone.utc)
    resp,             \* the request being answered and its response (NoRequest between requests)
    gate,             \* r2_storage.s3_semaphore and the calls that went through it
    call,             \* the validator or helper called last, its input and its result
    tasks             \* the requests the event loop handles concurrently, each with its locals

vars == <<roads, feedback, roadsIssued, feedbackIssued, blobs, blobsIssued, now, resp, gate, call,
          tasks>>

\* datetime.now(timezone.utc): the clock has moved on since the last reading, or not
ClockReadings(t) == IF t < MaxClock THEN {t, t + 1} ELSE {t}

\* what a handler returned, with the request it answered: the operation,
\* the HTTP status, the detail of the HTTPException it raised, the bearer
\* token of the request, the road_id path parameter, the keys of the update
\* payload that were given, the ids of the roads in the body, the total in
\* the body, the blob deletions it attempted, the osm_way_id and geometry of
\* the payload, the answer of the OSM lookup it made (None when it made
\* none), the query parameters of the map request, the length it handed to
\* the cursor, the geometry and the properties of every feature in the body,
\* the road in the body of a fetch by id, the top-level keys of the JSON
\* body, and for the /osm endpoints the query and radius of the request, the
\* radius handed to the Overpass search (None when it was not called), the
\* results and the way in the body
Envelope == {"status", "message", "data"}

Response(op, status, token, road_id) ==
    [op |-> op, status |-> status, detail |-> "", token |-> token, road_id |-> road_id,
     supplied |-> {}, ids |-> << >>, total |-> 0, deletes |-> << >>,
     osm_way_id |-> None, geometry |-> None, lookup |-> None,
     box |-> None, limit |-> None, length |-> 0, features |-> << >>,
     properties |-> << >>, road |-> None, body |-> Envelope,
     query |-> << >>, radius |-> None, searched |-> None, results |-> << >>,
     way |-> None]

\* the body of a raised HTTPException: main.py registers handlers for
\* RateLimitExceeded and for Exception only, so the framework's own handler
\* answers an HTTPException with {"detail": detail}
HTTPExceptionBody == {"detail"}

Error(op, status, detail, token, road_id) ==
    [Response(op, status, token, road_id) EXCEPT !.detail = detail,
                                                 !.body = HTTPExceptionBody]

NoToken == ""

\* no request is being answered
NoRequest == Response("startup", 0, NoToken, MalformedId)

Min(a, b) == IF a < b THEN a ELSE b

\* the orders in which a cursor sorted by key, descending, can deliver the
\* documents ids of collection coll (equal keys come in any order)
SortedDesc(coll, ids, key) ==
    {s \in [1..Cardinality(ids) -> ids] :
        /\ \A i, j \in 1..Cardinality(ids) : i # j => s[i] # s[j]
        /\ \A i, j \in 1..Cardinality(ids) : i < j => coll[s[i]][key] >= coll[s[j]][key]}

\* the orders in which an unsorted cursor can deliver the documents ids
AnyOrder(ids) ==
    {s \in [1..Cardinality(ids) -> ids] :
        \A i, j \in 1..Cardinality(ids) : i # j => s[i] # s[j]}

\* cursor.skip(skip).limit(limit) on the delivery order s
Page(s, skip, limit) == SubSeq(s, skip + 1, Min(Len(s), skip + limit))

\* self.s3_semaphore = asyncio.Semaphore(10)
S3_SEMAPHORE_VALUE == 10

\* the semaphore as R2Storage() leaves it: every permit free, nobody waiting,
\* no call of _run_in_executor arrived, in flight or finished; last is the
\* s3 operation of the call that arrived last or how the last call ended
GateInit == [value |-> S3_SEMAPHORE_VALUE, waiters |-> << >>, in_flight |-> {},
             done |-> {}, arrived |-> 0, last |-> "none"]

\* requests the event loop handles at the same time
MaxTasks == 2
Procs == 1..MaxTasks

\* the locals of a request in progress: the handler (op), the await it is
\* suspended at or "done" (pc), the path parameter, the payload, the
\* document it is about to write (update_fields, the $set of approve_road,
\* feedback_dict, the $set of upload_road_image), the id insert_one returned,
\* the url upload_file returned, the matched_count of its update_one, the
\* status and detail it answered with (0 while it runs); and for the record,
\* the handlers whose writes reached the road between this request's
\* find_one and its own write (missed), and whether its write is the latest
\* write to the road among those of the requests in progress (latest)
Task(op, pc, road_id) ==
    [op |-> op, pc |-> pc, road_id |-> road_id, road_data |-> None, fields |-> << >>,
     inserted_id |-> None, image_url |-> None, matched |-> None,
     status |-> 0, detail |-> "", missed |-> {}, latest |-> FALSE]

NoTasks == [p \in Procs |-> Task("idle", "idle", MalformedId)]

\* no validator or helper was called yet
NoCall == [fn |-> "none", field |-> "", input |-> << >>, output |-> << >>,
           error |-> None, round |-> 0, origin |-> << >>]

Init ==
    /\ roads = << >>
    /\ feedback = << >>
    /\ roadsIssued = 0
    /\ feedbackIssued = 0
    /\ blobs = {}
    /\ blobsIssued = 0
    /\ now = 0
    /\ resp = Response("startup", 0, NoToken, MalformedId)
    /\ gate = GateInit
    /\ call = NoCall
    /\ tasks = NoTasks

\* db.roads.insert_one: the collection with the document under a fresh ObjectId
InsertRoad(doc) == [id \in DOMAIN roads \cup {roadsIssued + 1} |->
                      IF id = roadsIssued + 1 THEN doc ELSE roads[id]]

\* ------------------------------------------------------------ POST /roads
CreateReconcileWithoutWay(osm_way_id, geometry, way_data) ==
    [geometry |-> geometry, has_osm_data |-> TruthyStr(osm_way_id) /\ TruthyDict(geometry)]

\* the geometry and has_osm_data create_road stores, given the way data of
\* the lookup it makes when osm_way_id is truthy and geometry is not
CreateReconcile(osm_way_id, geometry, way_data) ==
    IF TruthyStr(osm_way_id) /\ ~TruthyDict(geometry)
    THEN IF ~IsNone(way_data)
         THEN [geometry |-> Some(Get(way_data).geometry), has_osm_data |-> TRUE]
         ELSE [geometry |-> geometry, has_osm_data |-> FALSE]
    ELSE IF TruthyStr(osm_way_id) /\ TruthyDict(geometry)
         THEN [geometry |-> geometry, has_osm_data |-> TRUE]
         ELSE [geometry |-> geometry, has_osm_data |-> FALSE]

CreateApprovedAuto == TRUE

\* "approved": False  # Pending approval
CreateApproved == FALSE

create_road_dict(road_data, username, rec, created_at, updated_at) ==
    [road_name |-> road_data.road_name,
     location |-> [type |-> "Point",
                   coordinates |-> <<road_data.location.lng, road_data.location.lat>>],
     contractor |-> road_data.contractor,
     approved_by |-> road_data.approved_by,
     total_cost |-> road_data.total_cost,
     promised_completion_date |-> road_data.promised_completion_date,
     actual_completion_date |-> road_data.actual_completion_date,
     maintenance_firm |-> road_data.maintenance_firm,
     status |-> road_data.status,
     images |-> << >>,
     added_by_user |-> username,
     approved |-> CreateApproved,
     extra_fields |-> road_data.extra_fields,
     created_at |-> created_at,
     updated_at |-> updated_at,
     osm_way_id |-> road_data.osm_way_id,
     geometry |-> rec.geometry,
     has_osm_data |-> rec.has_osm_data]

\* the lookup create_road makes: `if osm_way_id and not geometry`
CreateLookup(road_data) ==
    TruthyStr(road_data.osm_way_id) /\ ~TruthyDict(road_data.geometry)

\* the answers of the OSM collaborator a handler can see: one of the
\* outcomes when it makes the lookup, no answer when it makes none
Answers(lookup) ==
    IF lookup THEN OverpassOutcomes ELSE {[status |-> 0, detail |-> "", elements |-> << >>]}

Unchanged == UNCHANGED <<tasks, gate, call, roads, feedback, roadsIssued, feedbackIssued, blobs, blobsIssued, now>>

create_road ==
    /\ resp = NoRequest
    /\ \E token \in Tokens :
         LET user == get_current_user(token)
         IN IF user.status # 0
            THEN /\ resp' = Error("create_road", user.status, user.detail, token, MalformedId)
                 /\ Unchanged
            ELSE \E road_data \in RoadCreateInputs :
                 \E overpass \in Answers(CreateLookup(road_data)) :
                   IF CreateLookup(road_data) /\ LookupRaised(overpass)
                   THEN /\ resp' = [Error("create_road", overpass.status, overpass.detail, token,
                                           MalformedId)
                                      EXCEPT !.osm_way_id = road_data.osm_way_id,
                                             !.geometry = road_data.geometry,
                                             !.lookup = Some(overpass)]
                        /\ Unchanged
                   ELSE /\ roadsIssued < MaxRoads
                        /\ \E created_at \in ClockReadings(now) :
                             \E updated_at \in ClockReadings(created_at) :
                               LET way_data == IF CreateLookup(road_data)
                                               THEN get_way_by_id(overpass) ELSE None
                                   rec == CreateReconcile(road_data.osm_way_id,
                                                          road_data.geometry, way_data)
                               IN /\ roads' = InsertRoad(create_road_dict(road_data,
                                                  user.username, rec, created_at, updated_at))
                                  /\ now' = updated_at
                        /\ roadsIssued' = roadsIssued + 1
                        /\ resp' = [Response("create_road", HTTP_201_CREATED, token,
                                             roadsIssued + 1)
                                      EXCEPT !.osm_way_id = road_data.osm_way_id,
                                             !.geometry = road_data.geometry,
                                             !.lookup = IF CreateLookup(road_data)
                                                        THEN Some(overpass) ELSE None]
                        /\ UNCHANGED <<tasks, gate, call, feedback, feedbackIssued, blobs, blobsIssued>>

\* ---------------------------------------------------- PUT /roads/{road_id}
\* update_fields before approved and updated_at are added: for every key
\* the value the handler put there, None when the key is absent
update_fields(road_data, way_data) ==
    [road_name |-> road_data.road_name,
     location |-> IF IsNone(road_data.location) THEN None
                  ELSE Some([type |-> "Point",
                             coordinates |-> <<Get(road_data.location).lng,
                                               Get(road_data.location).lat>>]),
     contractor |-> road_data.contractor,
     approved_by |-> road_data.approved_by,
     total_cost |-> road_data.total_cost,
     promised_completion_date |-> road_data.promised_completion_date,
     actual_completion_date |-> road_data.actual_completion_date,
     maintenance_firm |-> road_data.maintenance_firm,
     status |-> road_data.status,
     extra_fields |-> road_data.extra_fields,
     osm_way_id |-> IF IsNone(road_data.osm_way_id) THEN None
                    ELSE Some(road_data.osm_way_id),
     geometry |-> IF ~IsNone(road_data.osm_way_id)
                  THEN IF IsNone(road_data.geometry)
                       THEN IF ~IsNone(way_data) THEN Some(Some(Get(way_data).geometry))
                            ELSE None
                       ELSE Some(road_data.geometry)
                  ELSE IF ~IsNone(road_data.geometry) THEN Some(road_data.geometry)
                       ELSE None,
     has_osm_data |-> IF ~IsNone(road_data.osm_way_id)
                      THEN IF IsNone(road_data.geometry)
                           THEN IF ~IsNone(way_data) THEN Some(TRUE) ELSE None
                           ELSE Some(TRUE)
                      ELSE IF ~IsNone(road_data.geometry) THEN Some(TRUE)
                           ELSE None]

FieldsAlwaysPresent(fields) == FALSE

\* `if not update_fields`
NoFieldsToUpdate(fields) == \A k \in DOMAIN fields : IsNone(fields[k])

UpdateModerationKeepsFlag(updated_at) ==
    [updated_at |-> Some(updated_at)]

\* the moderation fields update_road adds to every accepted update
UpdateModeration(updated_at) ==
    [approved |-> Some(FALSE), updated_at |-> Some(updated_at)]

ApplySetKeepsName(doc, fields) ==
    [k \in DOMAIN doc |->
        IF k \in DOMAIN fields /\ ~IsNone(fields[k]) /\ k # "road_name"
        THEN Get(fields[k]) ELSE doc[k]]

\* {"$set": fields} on one document
ApplySet(doc, fields) ==
    [k \in DOMAIN doc |->
        IF k \in DOMAIN fields /\ ~IsNone(fields[k]) THEN Get(fields[k]) ELSE doc[k]]

\* db.roads.update_one({"_id": road_id}, {"$set": fields})
UpdateOne(road_id, fields) ==
    [id \in DOMAIN roads |-> IF id = road_id THEN ApplySet(roads[id], fields) ELSE roads[id]]

\* the keys of the payload that are given (not None)
Supplied(road_data) == {k \in DOMAIN road_data : ~IsNone(road_data[k])}

UpdateLookupAlways(road_data) == TRUE

\* the lookup update_road makes: osm_way_id given and geometry not
UpdateLookup(road_data) ==
    ~IsNone(road_data.osm_way_id) /\ IsNone(road_data.geometry)

update_road ==
    /\ resp = NoRequest
    /\ \E token \in Tokens :
         LET user == get_current_user(token)
         IN IF user.status # 0
            THEN /\ resp' = Error("update_road", user.status, user.detail, token, MalformedId)
                 /\ Unchanged
            ELSE \E road_id \in RoadIdInputs :
              IF ~ObjectIdIsValid(road_id)
              THEN /\ resp' = Error("update_road", HTTP_400_BAD_REQUEST, "Invalid road ID", token, road_id)
                   /\ Unchanged
              ELSE IF road_id \notin DOMAIN roads
              THEN /\ resp' = Error("update_road", HTTP_404_NOT_FOUND, "Road not found", token, road_id)
                   /\ Unchanged
              ELSE \E road_data \in RoadUpdateInputs :
                   \E overpass \in Answers(UpdateLookup(road_data)) :
                     LET way_data == IF UpdateLookup(road_data)
                                     THEN get_way_by_id(overpass) ELSE None
                         fields == update_fields(road_data, way_data)
                         lookup == IF UpdateLookup(road_data) THEN Some(overpass) ELSE None
                     IN IF UpdateLookup(road_data) /\ LookupRaised(overpass)
                        THEN /\ resp' = [Error("update_road", overpass.status, overpass.detail,
                                               token, road_id)
                                           EXCEPT !.supplied = Supplied(road_data),
                                                  !.osm_way_id = road_data.osm_way_id,
                                                  !.geometry = road_data.geometry,
                                                  !.lookup = lookup]
                             /\ Unchanged
                        ELSE IF NoFieldsToUpdate(fields)
                        THEN /\ resp' = [Error("update_road", HTTP_400_BAD_REQUEST,
                                               "No fields to update", token, road_id)
                                           EXCEPT !.supplied = Supplied(road_data),
                                                  !.osm_way_id = road_data.osm_way_id,
                                                  !.geometry = road_data.geometry,
                                                  !.lookup = lookup]
                             /\ Unchanged
                        ELSE /\ \E updated_at \in ClockReadings(now) :
                                  /\ roads' = UpdateOne(road_id,
                                                        fields @@ UpdateModeration(updated_at))
                                  /\ now' = updated_at
                             /\ resp' = [Response("update_road", HTTP_200_OK, token, road_id)
                                           EXCEPT !.supplied = Supplied(road_data),
                                                  !.osm_way_id = road_data.osm_way_id,
                                                  !.geometry = road_data.geometry,
                                                  !.lookup = lookup]
                             /\ UNCHANGED <<tasks, gate, call, feedback, roadsIssued, feedbackIssued, blobs,
                                            blobsIssued>>

\* ------------------------------------------- POST /admin/approve/{road_id}
\* the fields approve_road sets
ApproveFields(updated_at) ==
    [approved |-> Some(TRUE), updated_at |-> Some(updated_at)]

NeverAlreadyApproved(road) == FALSE

\* `if road["approved"]`: the road approve_road refuses to approve again
AlreadyApproved(road) == road.approved

approve_road ==
    /\ resp = NoRequest
    /\ \E token \in Tokens :
         IF verify_admin_token(token) # 0
         THEN /\ resp' = Error("approve_road", verify_admin_token(token), "Invalid admin token",
                               token, MalformedId)
              /\ Unchanged
         ELSE \E road_id \in RoadIdInputs :
           IF ~ObjectIdIsValid(road_id)
           THEN /\ resp' = Error("approve_road", HTTP_400_BAD_REQUEST, "Invalid road ID", token, road_id)
                /\ Unchanged
           ELSE IF road_id \notin DOMAIN roads
           THEN /\ resp' = Error("approve_road", HTTP_404_NOT_FOUND, "Road not found", token, road_id)
                /\ Unchanged
           ELSE IF AlreadyApproved(roads[road_id])
           THEN /\ resp' = Error("approve_road", HTTP_400_BAD_REQUEST,
                                  "Road is already approved", token, road_id)
                /\ Unchanged
           ELSE /\ \E updated_at \in ClockReadings(now) :
                     /\ roads' = UpdateOne(road_id, ApproveFields(updated_at))
                     /\ now' = updated_at
                /\ resp' = [Response("approve_road", HTTP_200_OK, token, road_id)
                              EXCEPT !.ids = <<road_id>>]
                /\ UNCHANGED <<tasks, gate, call, feedback, roadsIssued, feedbackIssued, blobs, blobsIssued>>

\* ------------------------------------------ DELETE /admin/reject/{road_id}
\* what s3_client.delete_object does: it returns, or raises a ClientError
\* (the service refused), or raises an error that is no ClientError (botocore's
\* EndpointConnectionError when the endpoint cannot be reached)
DeleteObjectOutcomes == {"returned", "ClientError", "EndpointConnectionError"}

\* r2_storage.delete_file: the object is deleted and True returned; a
\* ClientError is caught and False returned; any other error is raised
delete_file(delete_object) ==
    IF delete_object = "returned" THEN "deleted"
    ELSE IF delete_object = "ClientError" THEN "false"
    ELSE "raised"

DeleteOutcomes == {delete_file(delete_object) : delete_object \in DeleteObjectOutcomes}

DeleteAttemptsUntilFailure(images, outcomes) ==
    LET failures == {i \in 1..Len(images) : outcomes[i] = "raised"}
        last == IF failures = {} THEN Len(images)
                ELSE CHOOSE i \in failures : \A j \in failures : i <= j
    IN [i \in 1..last |-> [url |-> images[i], outcome |-> outcomes[i]]]

\* the loop over road["images"]: every url is handed to delete_file, whatever
\* the calls before it did
DeleteAttempts(images, outcomes) ==
    [i \in 1..Len(images) |-> [url |-> images[i], outcome |-> outcomes[i]]]

\* db.roads.delete_one({"_id": road_id})
DeleteOne(road_id) == [id \in DOMAIN roads \ {road_id} |-> roads[id]]

\* db.feedback.delete_many({"road_id": road_id})
DeleteManyFeedback(road_id) ==
    [f \in {g \in DOMAIN feedback : feedback[g].road_id # road_id} |-> feedback[f]]

reject_road ==
    /\ resp = NoRequest
    /\ \E token \in Tokens :
         IF verify_admin_token(token) # 0
         THEN /\ resp' = Error("reject_road", verify_admin_token(token), "Invalid admin token",
                               token, MalformedId)
              /\ Unchanged
         ELSE \E road_id \in RoadIdInputs :
           IF ~ObjectIdIsValid(road_id)
           THEN /\ resp' = Error("reject_road", HTTP_400_BAD_REQUEST, "Invalid road ID", token, road_id)
                /\ Unchanged
           ELSE IF road_id \notin DOMAIN roads
           THEN /\ resp' = Error("reject_road", HTTP_404_NOT_FOUND, "Road not found", token, road_id)
                /\ Unchanged
           ELSE LET images == roads[road_id].images
                IN /\ \E outcomes \in [1..Len(images) -> DeleteOutcomes] :
                        LET attempts == DeleteAttempts(images, outcomes)
                        IN /\ blobs' = blobs \ {attempts[i].url : i \in
                                         {j \in 1..Len(attempts) : attempts[j].outcome = "deleted"}}
                           /\ resp' = [Response("reject_road", HTTP_200_OK, token, road_id)
                                         EXCEPT !.deletes = attempts]
                   /\ roads' = DeleteOne(road_id)
                   /\ feedback' = DeleteManyFeedback(road_id)
                   /\ UNCHANGED <<tasks, gate, call, roadsIssued, feedbackIssued, blobsIssued, now>>

\* ------------------------------------------ POST /roads/{road_id}/feedback
Comments == {"thanks"}

FindAnyRoad(road_id) == road_id \in DOMAIN roads

\* the filter {"_id": road_id, "approved": True} of the public handlers
FindApproved(road_id) == road_id \in DOMAIN roads /\ roads[road_id].approved = TRUE

\* db.feedback.insert_one
InsertFeedback(doc) == [f \in DOMAIN feedback \cup {feedbackIssued + 1} |->
                          IF f = feedbackIssued + 1 THEN doc ELSE feedback[f]]

add_feedback ==
    /\ resp = NoRequest
    /\ \E token \in Tokens :
         LET user == get_current_user(token)
         IN IF user.status # 0
            THEN /\ resp' = Error("add_feedback", user.status, user.detail, token, MalformedId)
                 /\ Unchanged
            ELSE \E road_id \in RoadIdInputs :
              IF ~ObjectIdIsValid(road_id)
              THEN /\ resp' = Error("add_feedback", HTTP_400_BAD_REQUEST, "Invalid road ID", token, road_id)
                   /\ Unchanged
              ELSE IF ~FindApproved(road_id)
              THEN /\ resp' = Error("add_feedback", HTTP_404_NOT_FOUND, "Road not found", token, road_id)
                   /\ Unchanged
              ELSE /\ feedbackIssued < MaxFeedback
                   /\ \E comment \in Comments, date \in ClockReadings(now) :
                        /\ feedback' = InsertFeedback([road_id |-> road_id,
                                                       user |-> user.username,
                                                       comment |-> comment,
                                                       date |-> date])
                        /\ now' = date
                   /\ feedbackIssued' = feedbackIssued + 1
                   /\ resp' = Response("add_feedback", HTTP_201_CREATED, token, road_id)
                   /\ UNCHANGED <<tasks, gate, call, roads, roadsIssued, blobs, blobsIssued>>

\* --------------------------------------------- POST /roads/{road_id}/image
MAX_IMAGE_SIZE_MB == 10
max_image_size_bytes == MAX_IMAGE_SIZE_MB * 1024 * 1024
allowed_image_types_list == {"image/jpeg", "image/jpg", "image/png", "image/webp"}

Files == { [content_type |-> "image/png", size |-> 1024],
           [content_type |-> "text/html", size |-> 1024],
           [content_type |-> "image/png", size |-> max_image_size_bytes + 1] }

\* r2_storage.upload_file: the object is stored and its URL returned, or the
\* call raises
UploadOutcomes == {"stored", "raised"}

PushImageKeepsTime(road_id, image_url, updated_at) ==
    [id \in DOMAIN roads |->
        IF id = road_id THEN [roads[id] EXCEPT !.images = Append(@, image_url)] ELSE roads[id]]

\* {"$push": {"images": image_url}, "$set": {"updated_at": now}}
PushImage(road_id, image_url, updated_at) ==
    [id \in DOMAIN roads |->
        IF id = road_id
        THEN [roads[id] EXCEPT !.images = Append(@, image_url), !.updated_at = updated_at]
        ELSE roads[id]]

upload_road_image ==
    /\ resp = NoRequest
    /\ \E token \in Tokens :
         LET user == get_current_user(token)
         IN IF user.status # 0
            THEN /\ resp' = Error("upload_road_image", user.status, user.detail, token, MalformedId)
                 /\ Unchanged
            ELSE \E road_id \in RoadIdInputs :
              IF ~ObjectIdIsValid(road_id)
              THEN /\ resp' = Error("upload_road_image", HTTP_400_BAD_REQUEST, "Invalid road ID", token, road_id)
                   /\ Unchanged
              ELSE IF road_id \notin DOMAIN roads
              THEN /\ resp' = Error("upload_road_image", HTTP_404_NOT_FOUND, "Road not found", token, road_id)
                   /\ Unchanged
              ELSE \E file \in Files :
                IF file.content_type \notin allowed_image_types_list
                THEN /\ resp' = Error("upload_road_image", HTTP_400_BAD_REQUEST,
                                       "Invalid file type", token, road_id)
                     /\ Unchanged
                ELSE IF file.size > max_image_size_bytes
                THEN /\ resp' = Error("upload_road_image", HTTP_400_BAD_REQUEST,
                                       "File size too large", token, road_id)
                     /\ Unchanged
                ELSE \E outcome \in UploadOutcomes :
                  IF outcome = "raised"
                  THEN /\ resp' = Error("upload_road_image", HTTP_500_INTERNAL_SERVER_ERROR,
                                        "Failed to upload image", token, road_id)
                       /\ Unchanged
                  ELSE /\ blobsIssued < MaxBlobs
                       /\ blobsIssued' = blobsIssued + 1
                       /\ blobs' = blobs \cup {blobsIssued + 1}
                       /\ \E updated_at \in ClockReadings(now) :
                            /\ roads' = PushImage(road_id, blobsIssued + 1, updated_at)
                            /\ now' = updated_at
                       /\ resp' = Response("upload_road_image", HTTP_201_CREATED, token,
                                           road_id)
                       /\ UNCHANGED <<tasks, gate, call, feedback, roadsIssued, feedbackIssued>>

\* -------------------------------------------------------------- the reads
Skips == {0, 1}
Limits == {1, 50}

ApprovedFilterOff == FALSE

\* {"approved": True}: the filter of the public listings
ApprovedFilter == TRUE

PendingFilterOff == TRUE

\* {"approved": False}: the filter of the admin queue
PendingFilter == FALSE

\* db.roads.find({"approved": approved}) / count_documents of the same filter
Matching(approved) == {id \in DOMAIN roads : roads[id].approved = approved}

\* GET /roads
get_roads ==
    /\ resp = NoRequest
    /\ \E skip \in Skips, limit \in Limits :
       \E s \in SortedDesc(roads, Matching(ApprovedFilter), "created_at") :
         /\ resp' = [Response("get_roads", HTTP_200_OK, NoToken, MalformedId)
                       EXCEPT !.ids = Page(s, skip, limit),
                              !.total = Cardinality(Matching(ApprovedFilter))]
         /\ Unchanged

\* GET /admin/pending
get_pending_roads ==
    /\ resp = NoRequest
    /\ \E token \in Tokens :
         IF verify_admin_token(token) # 0
         THEN /\ resp' = Error("get_pending_roads", verify_admin_token(token), "Invalid admin token",
                               token, MalformedId)
              /\ Unchanged
         ELSE \E skip \in Skips, limit \in Limits :
              \E s \in SortedDesc(roads, Matching(PendingFilter), "created_at") :
                /\ resp' = [Response("get_pending_roads", HTTP_200_OK, token, MalformedId)
                              EXCEPT !.ids = Page(s, skip, limit),
                                     !.total = Cardinality(Matching(PendingFilter))]
                /\ Unchanged

\* utils/datetime_helper.py: a datetime as {iso, timestamp, timezone}
format_datetime_response(dt) ==
    [iso |-> ToString(dt), timestamp |-> dt, timezone |-> "+00:00"]

\* GeoJSON keeps [lng, lat]; LocationResponse is {lat, lng}
road_to_response_swapped(road_id, road) ==
    [id |-> road_id,
     road_name |-> road.road_name,
     location |-> [lat |-> road.location.coordinates[1],
                   lng |-> road.location.coordinates[2]],
     contractor |-> road.contractor,
     approved_by |-> road.approved_by,
     total_cost |-> road.total_cost,
     promised_completion_date |-> road.promised_completion_date,
     actual_completion_date |-> road.actual_completion_date,
     maintenance_firm |-> road.maintenance_firm,
     status |-> road.status,
     images |-> road.images,
     added_by_user |-> road.added_by_user,
     approved |-> road.approved,
     extra_fields |-> road.extra_fields,
     created_at |-> format_datetime_response(road.created_at),
     updated_at |-> format_datetime_response(road.updated_at)]

\* road_to_response: the stored document as the RoadResponse of schemas.py
road_to_response(road_id, road) ==
    [id |-> road_id,
     road_name |-> road.road_name,
     location |-> [lat |-> road.location.coordinates[2],
                   lng |-> road.location.coordinates[1]],
     contractor |-> road.contractor,
     approved_by |-> road.approved_by,
     total_cost |-> road.total_cost,
     promised_completion_date |-> road.promised_completion_date,
     actual_completion_date |-> road.actual_completion_date,
     maintenance_firm |-> road.maintenance_firm,
     status |-> road.status,
     images |-> road.images,
     added_by_user |-> road.added_by_user,
     approved |-> road.approved,
     extra_fields |-> road.extra_fields,
     created_at |-> format_datetime_response(road.created_at),
     updated_at |-> format_datetime_response(road.updated_at)]

\* GET /roads/{road_id}
get_road_by_id ==
    /\ resp = NoRequest
    /\ \E road_id \in RoadIdInputs :
         /\ resp' = IF ~ObjectIdIsValid(road_id)
                    THEN Error("get_road_by_id", HTTP_400_BAD_REQUEST, "Invalid road ID", NoToken, road_id)
                    ELSE IF ~FindApproved(road_id)
                    THEN Error("get_road_by_id", HTTP_404_NOT_FOUND, "Road not found", NoToken, road_id)
                    ELSE [Response("get_road_by_id", HTTP_200_OK, NoToken, road_id)
                            EXCEPT !.ids = <<road_id>>,
                                   !.road = Some(road_to_response(road_id, roads[road_id]))]
         /\ Unchanged

\* GET /roads/{road_id}/feedback: the body lists the feedback of the road
get_road_feedback ==
    /\ resp = NoRequest
    /\ \E road_id \in RoadIdInputs :
         /\ resp' = IF ~ObjectIdIsValid(road_id)
                    THEN Error("get_road_feedback", HTTP_400_BAD_REQUEST, "Invalid road ID", NoToken, road_id)
                    ELSE IF ~FindApproved(road_id)
                    THEN Error("get_road_feedback", HTTP_404_NOT_FOUND, "Road not found", NoToken, road_id)
                    ELSE [Response("get_road_feedback", HTTP_200_OK, NoToken, road_id)
                            EXCEPT !.ids = <<road_id>>,
                                   !.total = Cardinality({f \in DOMAIN feedback :
                                                            feedback[f].road_id = road_id})]
         /\ Unchanged

\* GET /roads/osm/{osm_way_id}: find_one delivers any of the matching documents
OsmWayIdParams == {"w1", "w2"}

get_road_by_osm_id ==
    /\ resp = NoRequest
    /\ \E osm_way_id \in OsmWayIdParams :
         LET found == {id \in Matching(ApprovedFilter) : roads[id].osm_way_id = Some(osm_way_id)}
         IN /\ IF found = {}
               THEN resp' = Error("get_road_by_osm_id", HTTP_404_NOT_FOUND,
                                  "No construction data found for this OpenStreetMap way",
                                  NoToken, MalformedId)
               ELSE \E id \in found :
                      resp' = [Response("get_road_by_osm_id", HTTP_200_OK, NoToken, MalformedId)
                                 EXCEPT !.ids = <<id>>]
            /\ Unchanged

\* GET /roads/map
MapLimitCeiling == 5000
DefaultMapLimit == 1000

\* the limit query parameter: left out, or an int
MapLimits == {None, Some(0), Some(1), Some(6000), Some(0 - 1)}

Box(min_lat, max_lat, min_lng, max_lng) ==
    [min_lat |-> min_lat, max_lat |-> max_lat, min_lng |-> min_lng, max_lng |-> max_lng]

\* no bounds; a box around the stored locations; a box south of them that
\* lies on the equator; a box north of them
Boxes == { Box(None, None, None, None),
           Box(Some(10), Some(20), Some(70), Some(80)),
           Box(Some(0), Some(10), Some(70), Some(80)),
           Box(Some(20), Some(30), Some(70), Some(80)) }

\* Python truthiness of an optional number
TruthyNum(o) == ~IsNone(o) /\ Get(o) # 0

\* {"$geoWithin": {"$box": [[min_lng, min_lat], [max_lng, max_lat]]}}
GeoWithinBox(location, box) ==
    /\ Get(box.min_lng) <= location.coordinates[1]
    /\ location.coordinates[1] <= Get(box.max_lng)
    /\ Get(box.min_lat) <= location.coordinates[2]
    /\ location.coordinates[2] <= Get(box.max_lat)

\* the query get_roads_geojson builds
MapQuery(box) ==
    {id \in Matching(ApprovedFilter) :
        (TruthyNum(box.min_lat) /\ TruthyNum(box.max_lat)
           /\ TruthyNum(box.min_lng) /\ TruthyNum(box.max_lng))
        => GeoWithinBox(roads[id].location, box)}

MapLimitUncapped(limit) == limit

\* `if limit > 5000: limit = 5000`
MapLimitCap(limit) == IF limit > MapLimitCeiling THEN MapLimitCeiling ELSE limit

\* cursor.to_list(length) on the delivery order s of find(query).limit(length):
\* at most length documents (limit(0) sets no limit, to_list(0) delivers none)
ToList(s, length) == Page(s, 0, length)

FeatureGeometryAlwaysPoint(road) ==
    [type |-> "Point", coordinates |-> road.location.coordinates]

\* the geometry of the feature of one road: the stored geometry when
\* `road.get("has_osm_data", False) and road.get("geometry")`, else the point
FeatureGeometry(road) ==
    IF road.has_osm_data /\ TruthyDict(road.geometry)
    THEN Get(road.geometry)
    ELSE [type |-> "Point", coordinates |-> road.location.coordinates]

\* a JSON value that is a boolean, or else null or an object
JsonBool(b) == [json |-> "boolean", bool |-> b, object |-> None]
JsonDict(o) == [json |-> IF IsNone(o) THEN "null" ELSE "object", bool |-> FALSE, object |-> o]

\* has_osm = road.get("has_osm_data", False) and road.get("geometry"):
\* Python's `and` yields its first operand when that is falsy, else its second
has_osm(road) ==
    IF ~road.has_osm_data THEN JsonBool(FALSE) ELSE JsonDict(road.geometry)

\* the properties of the feature of one road
FeatureProperties(road_id, road) ==
    [id |-> road_id,
     road_name |-> road.road_name,
     contractor |-> road.contractor,
     status |-> road.status,
     total_cost |-> road.total_cost,
     has_info |-> TRUE,
     has_osm_data |-> has_osm(road),
     osm_way_id |-> road.osm_way_id]

\* the requests: every box with the default limit, every limit without a box
MapRequests ==
    {[box |-> b, limit |-> None] : b \in Boxes}
        \cup {[box |-> Box(None, None, None, None), limit |-> l] : l \in MapLimits}

get_roads_geojson ==
    /\ resp = NoRequest
    /\ \E request0 \in MapRequests :
         LET box == request0.box
             limit0 == request0.limit
             limit == MapLimitCap(IF IsNone(limit0) THEN DefaultMapLimit ELSE Get(limit0))
             request == [Response("get_roads_geojson", HTTP_200_OK, NoToken, MalformedId)
                           EXCEPT !.box = Some(box), !.limit = limit0, !.length = limit]
         IN /\ IF limit < 0
               THEN resp' = [request EXCEPT !.status = HTTP_500_INTERNAL_SERVER_ERROR,
                                            !.detail = "An unexpected error occurred"]
               ELSE \E s \in AnyOrder(MapQuery(box)) :
                      LET got == ToList(s, limit)
                      IN resp' = [request EXCEPT
                                    !.ids = got,
                                    !.features = [i \in 1..Len(got) |->
                                                    FeatureGeometry(roads[got[i]])],
                                    !.properties = [i \in 1..Len(got) |->
                                                    FeatureProperties(got[i], roads[got[i]])]]
            /\ Unchanged

\* ------------------------------------------------ import_indian_roads.py
\* tags.get(key, default)
TagOr(tags, key, default) == IF IsNone(tags[key]) THEN default ELSE Get(tags[key])

\* tags.get("name") or tags.get("ref") or tags.get("alt_name") or "Unnamed Road (OSM id)"
ImportRoadName(osm_element) ==
    LET tags == osm_element.tags
    IN IF TruthyStr(tags.name) THEN Get(tags.name)
       ELSE IF TruthyStr(tags.ref) THEN Get(tags.ref)
       ELSE IF TruthyStr(tags.alt_name) THEN Get(tags.alt_name)
       ELSE "Unnamed Road (OSM " \o osm_element.id \o ")"

\* "approved": True  # Auto-approved
ImportApproved == TRUE

\* RoadImporter.convert_to_road_document: None for an element without
\* geometry nodes, else the document
convert_to_road_document(osm_element, import_date, created_at, updated_at) ==
    IF osm_element.geometry = << >> THEN None
    ELSE LET tags == osm_element.tags
             coordinates == osm_element.geometry
             highway_type == TagOr(tags, "highway", "unknown")
         IN Some(
            [road_name |-> ImportRoadName(osm_element),
             location |-> [type |-> "Point", coordinates |-> coordinates[1]],
             contractor |-> "To be updated",
             approved_by |-> "To be updated",
             total_cost |-> "To be updated",
             promised_completion_date |-> "To be updated",
             actual_completion_date |-> "To be updated",
             maintenance_firm |-> "To be updated",
             status |-> "Type: " \o highway_type,
             images |-> << >>,
             added_by_user |-> "WhoBuiltMyRoad",
             approved |-> ImportApproved,
             extra_fields |-> { <<"highway_type", highway_type>>,
                                <<"surface", TagOr(tags, "surface", "Unknown")>>,
                                <<"lanes", TagOr(tags, "lanes", "Unknown")>>,
                                <<"imported_from", "OpenStreetMap">>,
                                <<"import_date", ToString(import_date)>> },
             created_at |-> created_at,
             updated_at |-> updated_at,
             osm_way_id |-> Some(osm_element.id),
             geometry |-> Some(LineString(coordinates)),
             has_osm_data |-> TRUE])

road_never_exists(osm_way_id) == FALSE

\* RoadImporter.road_exists
road_exists(osm_way_id) ==
    \E id \in DOMAIN roads : roads[id].osm_way_id = Some(osm_way_id)

ImportElements == {WayElement, BareWayElement, NodeElement}

\* one turn of the importer's loop over the elements of an Overpass answer:
\* skip what is not a way, convert, insert unless the way is already stored
\* (capacity: the ObjectIds the roads collection has to hand out)
import_element(capacity) ==
    /\ resp = NoRequest
    /\ \E element \in ImportElements :
       \E import_date \in ClockReadings(now) :
       \E created_at \in ClockReadings(import_date) :
       \E updated_at \in ClockReadings(created_at) :
         LET road_doc == IF element.type # "way" THEN None
                         ELSE convert_to_road_document(element, import_date,
                                                       created_at, updated_at)
         IN IF IsNone(road_doc)
            THEN /\ resp' = [Response("import_road", 0, NoToken, MalformedId)
                                EXCEPT !.osm_way_id = Some(element.id)]
                 /\ now' = IF element.type # "way" \/ element.geometry = << >>
                           THEN now ELSE updated_at
                 /\ UNCHANGED <<tasks, gate, call, roads, feedback, roadsIssued, feedbackIssued, blobs, blobsIssued>>
            ELSE IF road_exists(Get(Get(road_doc).osm_way_id))
            THEN /\ resp' = [Response("import_road", 0, NoToken, MalformedId)
                                EXCEPT !.osm_way_id = Some(element.id)]
                 /\ now' = updated_at
                 /\ UNCHANGED <<tasks, gate, call, roads, feedback, roadsIssued, feedbackIssued, blobs, blobsIssued>>
            ELSE /\ roadsIssued < capacity
                 /\ roads' = InsertRoad(Get(road_doc))
                 /\ roadsIssued' = roadsIssued + 1
                 /\ now' = updated_at
                 /\ resp' = [Response("import_road", 0, NoToken, roadsIssued + 1)
                                EXCEPT !.osm_way_id = Some(element.id)]
                 /\ UNCHANGED <<tasks, gate, call, feedback, feedbackIssued, blobs, blobsIssued>>

import_road == import_element(MaxRoads)

\* the response is returned to the client; the next request is handled
\* after it
return_response ==
    /\ resp # NoRequest
    /\ resp' = NoRequest
    /\ Unchanged

Next ==
    \/ return_response
    \/ create_road
    \/ update_road
    \/ approve_road
    \/ reject_road
    \/ import_road
    \/ add_feedback
    \/ upload_road_image
    \/ get_roads
    \/ get_pending_roads
    \/ get_road_by_id
    \/ get_road_feedback
    \/ get_road_by_osm_id
    \/ get_roads_geojson

Spec == Init /\ [][Next]_vars

\* ------------------------------------------------------------------ claims
Inserted == DOMAIN roads' \ DOMAIN roads
Kept == DOMAIN roads' \cap DOMAIN roads
IsUserToken(token) == token \in {"jwt-u1"}
IsAdminToken(token) == token = "admin-token"
Stored(id) == id \in DOMAIN roads

\* C1: every road the authenticated create operation inserts is stored with
\* approved = false, whatever osm_way_id / geometry the payload carries, and
\* a road that is inserted with approved = true is inserted by the bulk importer.
C1_CreateLandsPending ==
    [][\A id \in Inserted :
          /\ resp'.op = "create_road" => roads'[id].approved = FALSE
          /\ roads'[id].approved = TRUE => resp'.op = "import_road"]_vars

C1_Witness ==
    /\ resp.op = "create_road"
    /\ resp.status = 201
    /\ Stored(resp.road_id)
    /\ roads[resp.road_id].approved = FALSE
    /\ roads[resp.road_id].osm_way_id # None
    /\ roads[resp.road_id].has_osm_data

\* C2: when an update of a stored road has been accepted, the stored road
\* has approved = false, whatever it was before and whichever fields the
\* update carried (descriptive fields only, or osm_way_id / geometry only).
C2_AcceptedUpdateIsPending ==
    (resp.op = "update_road" /\ resp.status = 200)
        => /\ Stored(resp.road_id)
           /\ roads[resp.road_id].approved = FALSE
           /\ resp.supplied # {}

C2_Witness ==
    /\ resp.op = "update_road"
    /\ resp.status = 200
    /\ resp.supplied = {"road_name"}
    /\ roads[resp.road_id].added_by_user = "WhoBuiltMyRoad"
    /\ roads[resp.road_id].road_name = "n2"
    /\ roads[resp.road_id].approved = FALSE

\* C3: every road in the body of a public read (list, get by id, map, get by
\* osm way id, feedback list of a road) is stored with approved = true when
\* it is read.
PublicReads == {"get_roads", "get_road_by_id", "get_roads_geojson",
                "get_road_by_osm_id", "get_road_feedback"}

C3_PublicReadsApprovedOnly ==
    (resp.op \in PublicReads /\ resp.status = 200)
        => \A i \in 1..Len(resp.ids) :
              Stored(resp.ids[i]) /\ roads[resp.ids[i]].approved = TRUE

C3_Witness ==
    /\ resp.op = "get_roads"
    /\ resp.status = 200
    /\ Len(resp.ids) = 1
    /\ roads[resp.ids[1]].approved = TRUE
    /\ roads[resp.ids[1]].added_by_user = "alice"

\* C4: approve on a road that is already approved answers with the
\* "Road is already approved" error and leaves the store, approved and
\* updated_at included, as it was.
C4_SecondApproveRejected ==
    [][(/\ resp'.op = "approve_road"
        /\ IsAdminToken(resp'.token)
        /\ Stored(resp'.road_id)
        /\ roads[resp'.road_id].approved = TRUE)
       => /\ resp'.status = 400
          /\ resp'.detail = "Road is already approved"
          /\ roads' = roads
          /\ now' = now]_vars

C4_Witness ==
    /\ resp.op = "approve_road"
    /\ resp.detail = "Road is already approved"
    /\ Stored(resp.road_id)
    /\ roads[resp.road_id].approved = TRUE

\* C5 as written: approve, reject and update answer not-found for every id
\* that identifies no stored road, and change no road and no feedback row.
ByIdWrites == {"approve_road", "reject_road", "update_road"}

Authorised(r) ==
    IF r.op = "update_road" THEN IsUserToken(r.token) ELSE IsAdminToken(r.token)

C5_NotFoundForEveryUnknownId ==
    [][(/\ resp'.op \in ByIdWrites
        /\ Authorised(resp')
        /\ ~Stored(resp'.road_id))
       => /\ resp'.status = 404
          /\ roads' = roads
          /\ feedback' = feedback]_vars

\* C5 amended: for an id that identifies no stored road, approve, reject and
\* update answer not-found when the id is a well-formed ObjectId and the
\* "Invalid road ID" error (400) when it is not; in both cases no road and no
\* feedback row is created, changed or deleted.
C5_NotFoundOrInvalidId ==
    [][(/\ resp'.op \in ByIdWrites
        /\ Authorised(resp')
        /\ ~Stored(resp'.road_id))
       => /\ IF resp'.road_id = MalformedId
             THEN resp'.status = 400 /\ resp'.detail = "Invalid road ID"
             ELSE resp'.status = 404 /\ resp'.detail = "Road not found"
          /\ roads' = roads
          /\ feedback' = feedback]_vars

C5_Witness ==
    /\ resp.op = "update_road"
    /\ resp.status = 404
    /\ resp.road_id # MalformedId
    /\ ~Stored(resp.road_id)
    /\ DOMAIN roads # {}

\* C6: an update of a stored road whose payload gives no field answers with
\* the "No fields to update" validation error and leaves the store as it
\* was: approved keeps its value and updated_at is not bumped.
C6_EmptyUpdateRejected ==
    [][(/\ resp'.op = "update_road"
        /\ IsUserToken(resp'.token)
        /\ Stored(resp'.road_id)
        /\ resp'.supplied = {})
       => /\ resp'.status = 400
          /\ resp'.detail = "No fields to update"
          /\ roads' = roads
          /\ now' = now]_vars

C6_Witness ==
    /\ resp.op = "update_road"
    /\ resp.detail = "No fields to update"
    /\ Stored(resp.road_id)
    /\ roads[resp.road_id].approved = TRUE

\* C7: a step that turns a stored road's approved from false to true is a
\* successful approve carrying the admin token; a step that turns it from
\* true to false is an accepted update; and after create, update, image
\* upload and feedback create no road is approved that was not before.
UserOps == {"create_road", "update_road", "upload_road_image", "add_feedback"}

C7_OnlyAdminApproves ==
    [][/\ \A id \in Kept :
            /\ (roads[id].approved = FALSE /\ roads'[id].approved = TRUE)
                  => /\ resp'.op = "approve_road"
                     /\ resp'.status = 200
                     /\ resp'.token = "admin-token"
                     /\ resp'.road_id = id
            /\ (roads[id].approved = TRUE /\ roads'[id].approved = FALSE)
                  => /\ resp'.op = "update_road"
                     /\ resp'.status = 200
                     /\ resp'.road_id = id
       /\ resp'.op \in UserOps
            => \A id \in DOMAIN roads' :
                  roads'[id].approved = TRUE => (Stored(id) /\ roads[id].approved = TRUE)]_vars

C7_Witness ==
    /\ resp.op = "approve_road"
    /\ resp.status = 200
    /\ roads[resp.road_id].approved = TRUE
    /\ roads[resp.road_id].added_by_user = "alice"

\* C8: feedback creation for a stored road that is pending answers not-found
\* and inserts no feedback row; it succeeds only for a road that is approved
\* when the handler looks it up.
C8_FeedbackNeedsApprovedRoad ==
    [][resp'.op = "add_feedback" =>
         /\ (/\ IsUserToken(resp'.token)
             /\ Stored(resp'.road_id)
             /\ roads[resp'.road_id].approved = FALSE)
               => /\ resp'.status = 404
                  /\ resp'.detail = "Road not found"
                  /\ feedback' = feedback
         /\ resp'.status = 201
               => /\ Stored(resp'.road_id)
                  /\ roads[resp'.road_id].approved = TRUE
                  /\ feedback' # feedback]_vars

C8_Witness ==
    /\ resp.op = "add_feedback"
    /\ resp.status = 404
    /\ Stored(resp.road_id)
    /\ roads[resp.road_id].approved = FALSE

\* C9: reject of a stored road hands every image of the road to the blob
\* store's delete, whichever of these deletions fail, deletes the road and
\* deletes every feedback row of the road.
C9_RejectIsBestEffort ==
    [][(/\ resp'.op = "reject_road"
        /\ IsAdminToken(resp'.token)
        /\ Stored(resp'.road_id))
       => /\ resp'.status = 200
          /\ Len(resp'.deletes) = Len(roads[resp'.road_id].images)
          /\ \A i \in 1..Len(resp'.deletes) :
                /\ resp'.deletes[i].url = roads[resp'.road_id].images[i]
                /\ resp'.deletes[i].outcome = "deleted" => resp'.deletes[i].url \notin blobs'
          /\ resp'.road_id \notin DOMAIN roads'
          /\ \A f \in DOMAIN feedback' : feedback'[f].road_id # resp'.road_id]_vars

C9_Witness ==
    /\ resp.op = "reject_road"
    /\ resp.status = 200
    /\ Len(resp.deletes) = 2
    /\ resp.deletes[1].outcome = "raised"
    /\ resp.deletes[2].outcome = "deleted"
    /\ resp.deletes[1].url \in blobs
    /\ resp.deletes[2].url \notin blobs
    /\ ~Stored(resp.road_id)
    /\ feedbackIssued = 1
    /\ DOMAIN feedback = {}

\* C10: the admin queue read returns pending roads only; every stored road is
\* in exactly one of the public approved listing and the admin pending queue;
\* the total of each listing is the number of stored roads its filter matches.
C10_TwoViewsPartition ==
    /\ (resp.op = "get_pending_roads" /\ resp.status = 200)
          => /\ \A i \in 1..Len(resp.ids) :
                   Stored(resp.ids[i]) /\ roads[resp.ids[i]].approved = FALSE
             /\ resp.total = Cardinality({id \in DOMAIN roads : roads[id].approved = FALSE})
    /\ (resp.op = "get_roads" /\ resp.status = 200)
          => resp.total = Cardinality({id \in DOMAIN roads : roads[id].approved = TRUE})
    /\ \A id \in DOMAIN roads :
          (id \in Matching(ApprovedFilter)) # (id \in Matching(PendingFilter))

C10_Witness ==
    /\ resp.op = "get_pending_roads"
    /\ resp.status = 200
    /\ resp.total = 1
    /\ Len(resp.ids) = 1
    /\ roads[resp.ids[1]].approved = FALSE

\* ------------------------------------------------- OSM reconciliation claims
\* the request gave an osm_way_id and no geometry
OsmIdOnly(r) == r.osm_way_id # None /\ r.geometry = None

\* the OSM lookup of the request was answered (no HTTPException)
LookupAnswered(r) == r.lookup # None /\ Get(r.lookup).status = 0

\* the line-string of the way the collaborator returned
ReturnedLine(r) ==
    [type |-> "LineString", coordinates |-> Get(r.lookup).elements[1].geometry]

\* C11: a create with an osm_way_id and no geometry asks the OSM collaborator;
\* when the collaborator returns a way, the stored road has has_osm_data =
\* true and the way's line-string as geometry; when it returns not-found, the
\* create still succeeds and the stored road has has_osm_data = false and
\* geometry null.
C11_CreateReconciles ==
    /\ (resp.op = "create_road" /\ resp.status = 201 /\ OsmIdOnly(resp))
          => resp.lookup # None
    /\ (resp.op = "create_road" /\ OsmIdOnly(resp) /\ LookupAnswered(resp))
          => /\ resp.status = 201
             /\ Stored(resp.road_id)
             /\ IF Get(resp.lookup).elements # << >>
                THEN /\ roads[resp.road_id].has_osm_data = TRUE
                     /\ roads[resp.road_id].geometry = <<ReturnedLine(resp)>>
                ELSE /\ roads[resp.road_id].has_osm_data = FALSE
                     /\ roads[resp.road_id].geometry = None

C11_Witness ==
    /\ resp.op = "create_road"
    /\ resp.status = 201
    /\ OsmIdOnly(resp)
    /\ LookupAnswered(resp)
    /\ Len(Get(resp.lookup).elements) = 1
    /\ roads[resp.road_id].has_osm_data = TRUE
    /\ Len(Get(roads[resp.road_id].geometry).coordinates) = 3

\* C12: an accepted create or update that gives a geometry and no osm_way_id
\* stores has_osm_data = true and the geometry as given.
C12_GeometryOnlyIsOsmData ==
    (/\ resp.op \in {"create_road", "update_road"}
     /\ resp.status \in {200, 201}
     /\ resp.osm_way_id = None
     /\ resp.geometry # None
     /\ Get(resp.geometry) # EmptyDict)
       => /\ roads[resp.road_id].has_osm_data = TRUE
          /\ roads[resp.road_id].geometry = resp.geometry

C12_Witness ==
    /\ resp.op = "create_road"
    /\ resp.status = 201
    /\ resp.osm_way_id = None
    /\ resp.geometry = <<UserLine>>
    /\ roads[resp.road_id].geometry = <<UserLine>>
    /\ roads[resp.road_id].has_osm_data = FALSE

\* C13: every stored road with has_osm_data = true has a geometry that is not
\* null and has at least one coordinate.
C13_OsmDataHasCoordinates ==
    \A id \in DOMAIN roads :
       roads[id].has_osm_data = TRUE
          => /\ roads[id].geometry # None
             /\ Get(roads[id].geometry) # EmptyDict
             /\ Get(roads[id].geometry).coordinates # << >>

C13_Witness ==
    /\ resp.op = "update_road"
    /\ resp.status = 200
    /\ resp.geometry = <<EmptyDict>>
    /\ roads[resp.road_id].geometry = <<EmptyDict>>
    /\ roads[resp.road_id].has_osm_data = TRUE

\* C14: an accepted update that gives neither osm_way_id nor geometry makes no
\* OSM lookup and leaves osm_way_id, geometry and has_osm_data of the stored
\* road as they were.
C14_UpdateWithoutOsmFieldsKeepsLinkage ==
    [][(/\ resp'.op = "update_road"
        /\ resp'.status = 200
        /\ resp'.osm_way_id = None
        /\ resp'.geometry = None)
       => /\ resp'.lookup = None
          /\ roads'[resp'.road_id].osm_way_id = roads[resp'.road_id].osm_way_id
          /\ roads'[resp'.road_id].geometry = roads[resp'.road_id].geometry
          /\ roads'[resp'.road_id].has_osm_data = roads[resp'.road_id].has_osm_data]_vars

C14_Witness ==
    /\ resp.op = "update_road"
    /\ resp.status = 200
    /\ resp.supplied = {"road_name"}
    /\ resp.lookup = None
    /\ roads[resp.road_id].has_osm_data = TRUE
    /\ roads[resp.road_id].osm_way_id # None
    /\ roads[resp.road_id].geometry # None

\* C15: an accepted update with an osm_way_id and no geometry leaves the
\* stored road with the way's line-string and has_osm_data = true when the
\* collaborator returns the way, and with geometry null and has_osm_data =
\* false when the collaborator returns not-found.
C15_UpdateReconciles ==
    (resp.op = "update_road" /\ resp.status = 200 /\ OsmIdOnly(resp) /\ LookupAnswered(resp))
       => IF Get(resp.lookup).elements # << >>
          THEN /\ roads[resp.road_id].has_osm_data = TRUE
               /\ roads[resp.road_id].geometry = <<ReturnedLine(resp)>>
          ELSE /\ roads[resp.road_id].has_osm_data = FALSE
               /\ roads[resp.road_id].geometry = None

C15_Witness ==
    /\ resp.op = "update_road"
    /\ resp.status = 200
    /\ OsmIdOnly(resp)
    /\ LookupAnswered(resp)
    /\ Get(resp.lookup).elements = << >>
    /\ roads[resp.road_id].osm_way_id = resp.osm_way_id
    /\ roads[resp.road_id].has_osm_data = TRUE
    /\ roads[resp.road_id].geometry = <<UserLine>>

\* C16: a create by an authenticated user that makes the OSM lookup succeeds
\* and stores a road whatever the lookup does; when the lookup fails the road
\* is stored with geometry null and has_osm_data = false.
C16_CreateSurvivesLookupFailure ==
    (resp.op = "create_road" /\ resp.lookup # None)
       => /\ resp.status = 201
          /\ Stored(resp.road_id)
          /\ Get(resp.lookup).status # 0
                => /\ roads[resp.road_id].geometry = None
                   /\ roads[resp.road_id].has_osm_data = FALSE

C16_Witness ==
    /\ resp.op = "create_road"
    /\ resp.status = 503
    /\ resp.detail = "Overpass API service temporarily unavailable"
    /\ OsmIdOnly(resp)
    /\ resp.lookup # None
    /\ DOMAIN roads = {}

\* C17: when the OSM lookup of a create or an update raises, the request
\* writes nothing: no road is inserted and no field of a stored road changes.
C17_FailedLookupWritesNothing ==
    [][(/\ resp'.op \in {"create_road", "update_road"}
        /\ resp'.lookup # None
        /\ Get(resp'.lookup).status # 0)
       => /\ resp'.status = Get(resp'.lookup).status
          /\ roads' = roads
          /\ roadsIssued' = roadsIssued
          /\ feedback' = feedback
          /\ now' = now]_vars

C17_Witness ==
    /\ resp.op = "update_road"
    /\ resp.status = 503
    /\ resp.detail = "Failed to connect to Overpass API"
    /\ resp.lookup # None
    /\ resp.supplied = {"road_name", "osm_way_id"}
    /\ Stored(resp.road_id)
    /\ roads[resp.road_id].approved = TRUE
    /\ roads[resp.road_id].road_name # "n2"

\* ------------------------------------------------------ map query claims
AllFourBounds(box) ==
    box.min_lat # None /\ box.max_lat # None /\ box.min_lng # None /\ box.max_lng # None

\* C18: when all four bounds of a map query are given, whatever their values
\* (0 included), every road in the body is approved and its point location
\* lies within the box.
C18_BoxFilters ==
    (resp.op = "get_roads_geojson" /\ resp.status = 200 /\ AllFourBounds(Get(resp.box)))
       => \A i \in 1..Len(resp.ids) :
             LET road == roads[resp.ids[i]]
                 box == Get(resp.box)
             IN /\ road.approved = TRUE
                /\ box.min_lng[1] <= road.location.coordinates[1]
                /\ road.location.coordinates[1] <= box.max_lng[1]
                /\ box.min_lat[1] <= road.location.coordinates[2]
                /\ road.location.coordinates[2] <= box.max_lat[1]

C18_Witness ==
    /\ resp.op = "get_roads_geojson"
    /\ resp.status = 200
    /\ Get(resp.box).min_lat = <<0>>
    /\ Get(resp.box).max_lat = <<10>>
    /\ Len(resp.ids) = 1
    /\ roads[resp.ids[1]].location.coordinates[2] = 15

\* C19: a map query hands the cursor a length of at most 5000, the requested
\* limit itself when it is between 0 and 5000, and 1000 when no limit is
\* requested; the body has one feature per returned road and never more
\* features than that length.
C19_MapLimitCapped ==
    resp.op = "get_roads_geojson"
       => /\ Len(resp.features) = Len(resp.ids)
          /\ resp.length <= 5000
          /\ Len(resp.features) <= 5000
          /\ resp.status = 200 => Len(resp.features) <= resp.length
          /\ (resp.limit # None /\ 0 <= resp.limit[1] /\ resp.limit[1] <= 5000)
                => /\ resp.status = 200
                   /\ resp.length = resp.limit[1]
                   /\ Len(resp.features) <= resp.limit[1]
          /\ resp.limit = None
                => /\ resp.status = 200
                   /\ resp.length = 1000
                   /\ Len(resp.features) <= 1000

C19_Witness ==
    /\ resp.op = "get_roads_geojson"
    /\ resp.status = 200
    /\ resp.limit = <<6000>>
    /\ resp.length = 5000
    /\ Len(resp.features) = 1

\* C20: the feature of a returned road carries the stored line-string when
\* has_osm_data is true and a geometry is present, and in every other case a
\* Point whose coordinates are those of the road's location.
C20_FeatureGeometrySelection ==
    (resp.op = "get_roads_geojson" /\ resp.status = 200)
       => \A i \in 1..Len(resp.ids) :
             LET road == roads[resp.ids[i]]
             IN IF /\ road.has_osm_data = TRUE
                   /\ road.geometry # None
                   /\ Get(road.geometry) # EmptyDict
                THEN resp.features[i] = Get(road.geometry)
                ELSE resp.features[i] =
                        [type |-> "Point", coordinates |-> road.location.coordinates]

C20_Witness ==
    /\ resp.op = "get_roads_geojson"
    /\ resp.status = 200
    /\ Len(resp.features) = 1
    /\ resp.features[1].type = "LineString"
    /\ Len(resp.features[1].coordinates) = 3
    /\ roads[resp.ids[1]].has_osm_data = TRUE

\* ==================================================== utils/storage.py
\* calls of _run_in_executor the model follows
MaxCalls == 11

\* the store, the last response and the requests in progress stay as they are
StoreIdle == UNCHANGED <<roads, feedback, roadsIssued, feedbackIssued, blobs, blobsIssued,
                         now, resp, tasks>>

NeverLocked(g) == {FALSE}

\* whether `async with self.s3_semaphore` has to wait: always when no permit
\* is left, never when permits are left and nobody waits; with permits left
\* and waiters queued it depends on the interpreter (asyncio before 3.11 lets
\* the newcomer through, 3.11 and later queue it behind the waiters)
Locked(g) ==
    IF g.value = 0 THEN {TRUE}
    ELSE IF g.waiters = << >> THEN {FALSE}
    ELSE {TRUE, FALSE}

\* a call enters _run_in_executor for the s3 operation op: it takes a permit
\* and runs in the executor, or queues at the semaphore
run_in_executor_enter(op) ==
    /\ gate.arrived < MaxCalls
    /\ \E locked \in Locked(gate) :
         LET c == gate.arrived + 1
         IN gate' = IF locked
                    THEN [gate EXCEPT !.arrived = c, !.waiters = Append(@, c), !.last = op]
                    ELSE [gate EXCEPT !.arrived = c, !.value = @ - 1,
                                      !.in_flight = @ \cup {c}, !.last = op]
    /\ call' = call
    /\ StoreIdle

\* upload_file: s3_client.put_object through _run_in_executor
upload_file_enter == run_in_executor_enter("put_object")

\* delete_file: s3_client.delete_object through _run_in_executor
delete_file_enter == run_in_executor_enter("delete_object")

\* the waiter at the head of the queue wakes up after a release and takes
\* the permit
run_in_executor_resume ==
    /\ gate.waiters # << >>
    /\ gate.value > 0
    /\ gate' = [gate EXCEPT !.waiters = Tail(@), !.value = @ - 1,
                            !.in_flight = @ \cup {Head(gate.waiters)}]
    /\ call' = call
    /\ StoreIdle

ReleaseOnReturnOnly(value, outcome) == IF outcome = "raised" THEN value ELSE value + 1

\* __aexit__ of `async with self.s3_semaphore`: release(), however the block ended
Release(value, outcome) == value + 1

\* the s3 operation of a call in flight returns or raises: leaving the
\* `async with` block releases the permit either way
run_in_executor_exit ==
    \E c \in gate.in_flight :
    \E outcome \in {"returned", "raised"} :
      /\ gate' = [gate EXCEPT !.in_flight = @ \ {c}, !.done = @ \cup {c},
                              !.value = Release(@, outcome), !.last = outcome]
      /\ call' = call
      /\ StoreIdle

NextGate ==
    \/ upload_file_enter
    \/ delete_file_enter
    \/ run_in_executor_resume
    \/ run_in_executor_exit

SpecGate == Init /\ [][NextGate]_vars

\* every s3 operation in the executor ends (it returns or raises), and the
\* event loop runs a waiter that can take a permit
SpecGateFair ==
    /\ SpecGate
    /\ WF_vars(run_in_executor_exit)
    /\ WF_vars(run_in_executor_resume)

\* ============================================== import_indian_roads.py
\* the importer run with room for one road more than the API's create
ImportCapacity == MaxRoads + 1

\* import_national_highways: the loop over the elements of the answer
import_national_highways == import_element(ImportCapacity)

NextImport ==
    \/ return_response
    \/ create_road
    \/ reject_road
    \/ import_national_highways

SpecImport == Init /\ [][NextImport]_vars

\* =========================================================== schemas.py
\* strings are sequences of characters; the characters that matter to the
\* validators are the two brackets, the blank and one other character
MaxLen == 5
Chars == {"<", ">", " ", "a"}

\* the strings a payload can carry in a str field, the empty one included
Strings == UNION {[1..n -> Chars] : n \in 0..MaxLen}

\* Field(..., min_length=1): checked on the value as it was given, before
\* the field validator runs
MinLength(v) == Len(v) >= 1

\* the least index i >= from with s[i] = ch, 0 when there is none
IndexFrom(s, ch, from) ==
    LET at == {i \in from..Len(s) : s[i] = ch}
    IN IF at = {} THEN 0 ELSE CHOOSE i \in at : \A j \in at : i <= j

\* re.sub with count=1: the leftmost match only
ReSubFirstTag(v) ==
    LET open == IndexFrom(v, "<", 1)
        close == IF open = 0 THEN 0 ELSE IndexFrom(v, ">", open + 1)
    IN IF close = 0 THEN v
       ELSE SubSeq(v, 1, open - 1) \o SubSeq(v, close + 1, Len(v))

\* re.sub(r'<[^>]*>', '', v): every leftmost match, one pass from the left,
\* replaced by nothing; a match runs from a '<' to the first '>' after it
RECURSIVE ReSubTags(_)
ReSubTags(v) ==
    LET open == IndexFrom(v, "<", 1)
        close == IF open = 0 THEN 0 ELSE IndexFrom(v, ">", open + 1)
    IN IF close = 0 THEN v
       ELSE SubSeq(v, 1, open - 1) \o ReSubTags(SubSeq(v, close + 1, Len(v)))

\* str.strip(): without the blanks at both ends
Strip(v) ==
    LET solid == {i \in 1..Len(v) : v[i] # " "}
    IN IF solid = {} THEN << >>
       ELSE SubSeq(v, CHOOSE i \in solid : \A j \in solid : i <= j,
                      CHOOSE i \in solid : \A j \in solid : i >= j)

\* RoadCreate.sanitize_text, RoadUpdate.sanitize_text, FeedbackCreate.sanitize_comment
sanitize_text(v) == Strip(ReSubTags(v))

\* the str fields of RoadCreate and RoadUpdate
RoadStrFields == {"road_name", "contractor", "approved_by", "total_cost",
                  "promised_completion_date", "actual_completion_date",
                  "maintenance_firm", "status"}

\* @field_validator('road_name', 'contractor', 'approved_by', 'maintenance_firm', 'status')
SanitizedFields == {"road_name", "contractor", "approved_by", "maintenance_firm", "status"}

\* a payload string arrived and no validator ran yet (origin: the string
\* the client sent first, round: how often it went through a validator)
Given(v) == [fn |-> "none", field |-> "", input |-> v, output |-> << >>,
             error |-> None, round |-> 0, origin |-> v]

\* the value a model holds for a field that was given as v (the value the
\* handler stores), or the validation error that rejects the payload
Validated(fn, field, v) ==
    IF ~MinLength(v)
    THEN [fn |-> fn, field |-> field, input |-> v, output |-> << >>,
          error |-> Some("string_too_short"), round |-> 1, origin |-> v]
    ELSE [fn |-> fn, field |-> field, input |-> v,
          output |-> IF field \in SanitizedFields \cup {"comment"}
                     THEN sanitize_text(v) ELSE v,
          error |-> None, round |-> 1, origin |-> v]

\* the fields of a create payload are validated: the model's values are
\* what create_road stores
RoadCreate_validate ==
    \E field \in RoadStrFields :
      /\ call.fn = "none"
      /\ call' = Validated("RoadCreate", field, call.input)
      /\ gate' = gate
      /\ StoreIdle

\* the given fields of an update payload are validated: the model's values
\* are what update_road stores
RoadUpdate_validate ==
    \E field \in RoadStrFields :
      /\ call.fn = "none"
      /\ call' = Validated("RoadUpdate", field, call.input)
      /\ gate' = gate
      /\ StoreIdle

\* the comment of a feedback payload is validated: the model's value is
\* what add_feedback stores
FeedbackCreate_validate ==
    /\ call.fn = "none"
    /\ call' = Validated("FeedbackCreate", "comment", call.input)
    /\ gate' = gate
    /\ StoreIdle

\* a stored value comes back in a later update payload for the same field
\* (a client that read the road sends it again) and is validated again
RoadUpdate_revalidate ==
    /\ call.fn \in {"RoadCreate", "RoadUpdate"}
    /\ call.round = 1
    /\ call.error = None
    /\ call' = [Validated("RoadUpdate", call.field, call.output)
                  EXCEPT !.round = 2, !.origin = call.origin]
    /\ gate' = gate
    /\ StoreIdle

NextText ==
    \/ RoadCreate_validate
    \/ RoadUpdate_validate
    \/ FeedbackCreate_validate
    \/ RoadUpdate_revalidate

\* the store as Init has it, and any string as the payload's value
InitText ==
    /\ roads = << >>
    /\ feedback = << >>
    /\ roadsIssued = 0
    /\ feedbackIssued = 0
    /\ blobs = {}
    /\ blobsIssued = 0
    /\ now = 0
    /\ resp = Response("startup", 0, NoToken, MalformedId)
    /\ gate = GateInit
    /\ call \in {Given(v) : v \in Strings}
    /\ tasks = NoTasks

SpecText == InitText /\ [][NextText]_vars

\* ======================================================= routers/osm.py
DEFAULT_SEARCH_RADIUS == 5000
MAX_SEARCH_RADIUS == 50000

\* ways with nodes that carry a ref only, an alt_name only, no name at all
RefWay == [BareWayElement EXCEPT !.geometry = << <<70, 10>>, <<71, 11>> >>]
AltWay == [type |-> "way", id |-> "w4",
           tags |-> [Tags(None, None) EXCEPT !.alt_name = Some("Old Road")],
           geometry |-> << <<72, 12>>, <<73, 13>> >>]
UnnamedWay == [type |-> "way", id |-> "w5", tags |-> Tags(None, None),
               geometry |-> << <<72, 12>>, <<74, 14>> >>]

\* query_overpass for the name search: no element; ways of which one comes
\* twice (it matches by name and by ref); elements that are no way or have
\* no nodes among ways; the service is unavailable
SearchOutcomes ==
    { [status |-> 0, detail |-> "", elements |-> << >>],
      [status |-> 0, detail |-> "", elements |-> <<WayElement, RefWay, WayElement>>],
      [status |-> 0, detail |-> "",
       elements |-> <<NodeElement, BareWayElement, AltWay, UnnamedWay, AltWay>>],
      [status |-> HTTP_503_SERVICE_UNAVAILABLE,
       detail |-> "Overpass API service temporarily unavailable", elements |-> << >>] }

\* tags.get("name") or tags.get("ref") or tags.get("alt_name") or "Unnamed Road"
road_display_name(tags) ==
    IF TruthyStr(tags.name) THEN Get(tags.name)
    ELSE IF TruthyStr(tags.ref) THEN Get(tags.ref)
    ELSE IF TruthyStr(tags.alt_name) THEN Get(tags.alt_name)
    ELSE "Unnamed Road"

\* the loop of search_roads_by_name from element i on, with the ids seen and
\* the roads collected so far
RECURSIVE SearchLoop(_, _, _, _)
SearchLoop(elements, i, seen_ids, found) ==
    IF i > Len(elements) THEN found
    ELSE LET element == elements[i]
         IN IF element.id \in seen_ids
            THEN SearchLoop(elements, i + 1, seen_ids, found)
            ELSE IF element.type = "way" /\ element.geometry # << >>
            THEN SearchLoop(elements, i + 1, seen_ids \cup {element.id},
                            Append(found, [osm_way_id |-> element.id,
                                           name |-> road_display_name(element.tags),
                                           geometry |-> LineString(element.geometry),
                                           tags |-> element.tags]))
            ELSE SearchLoop(elements, i + 1, seen_ids, found)

\* search_roads_by_name on an answer of query_overpass
search_roads_by_name(result) == SearchLoop(result.elements, 1, {}, << >>)

\* the queries: empty, one character between blanks, two characters; the
\* radii: the default, the ceiling, beyond the ceiling
SearchRequests ==
    {[query |-> q, radius |-> DEFAULT_SEARCH_RADIUS] :
        q \in {<< >>, <<" ", "N", " ">>, <<"N", "H">>}}
      \cup {[query |-> <<"N", "H">>, radius |-> r] :
              r \in {MAX_SEARCH_RADIUS, MAX_SEARCH_RADIUS + 1}}

\* if not query or len(query.strip()) < 2
QueryTooShort(query) == query = << >> \/ Len(Strip(query)) < 2

RadiusUncapped(radius) == radius

\* if radius > 50000: radius = 50000
RadiusCap(radius) == IF radius > MAX_SEARCH_RADIUS THEN MAX_SEARCH_RADIUS ELSE radius

\* db.roads.find_one({"osm_way_id": ..., "approved": True}) is not None
has_our_data(osm_way_id) ==
    \E id \in DOMAIN roads :
        roads[id].osm_way_id = Some(osm_way_id) /\ roads[id].approved = TRUE

\* GET /osm/search
search_osm_roads ==
    /\ resp = NoRequest
    /\ \E request \in SearchRequests :
         LET asked == [Response("search_osm_roads", HTTP_200_OK, NoToken, MalformedId)
                         EXCEPT !.query = request.query, !.radius = Some(request.radius)]
             radius == RadiusCap(request.radius)
         IN /\ IF QueryTooShort(request.query)
               THEN resp' = [asked EXCEPT !.status = HTTP_400_BAD_REQUEST,
                                          !.detail = "Search query must be at least 2 characters",
                                          !.body = HTTPExceptionBody]
               ELSE \E overpass \in SearchOutcomes :
                      IF LookupRaised(overpass)
                      THEN resp' = [asked EXCEPT !.status = overpass.status,
                                                 !.detail = overpass.detail,
                                                 !.body = HTTPExceptionBody,
                                                 !.searched = Some(radius)]
                      ELSE LET osm_roads == search_roads_by_name(overpass)
                           IN resp' = [asked EXCEPT
                                         !.searched = Some(radius),
                                         !.results = [i \in 1..Len(osm_roads) |->
                                            [osm_way_id |-> osm_roads[i].osm_way_id,
                                             name |-> osm_roads[i].name,
                                             geometry |-> osm_roads[i].geometry,
                                             tags |-> osm_roads[i].tags,
                                             has_our_data |->
                                                has_our_data(osm_roads[i].osm_way_id)]]]
            /\ Unchanged

\* GET /osm/way/{osm_way_id}
get_osm_way ==
    /\ resp = NoRequest
    /\ \E osm_way_id \in OsmWayIdParams :
       \E overpass \in OverpassOutcomes :
         LET asked == [Response("get_osm_way", HTTP_200_OK, NoToken, MalformedId)
                         EXCEPT !.osm_way_id = Some(osm_way_id)]
             way_data == get_way_by_id(overpass)
         IN /\ resp' = IF LookupRaised(overpass)
                       THEN [asked EXCEPT !.status = overpass.status,
                                          !.detail = overpass.detail,
                                          !.body = HTTPExceptionBody]
                       ELSE IF IsNone(way_data)
                       THEN [asked EXCEPT !.status = HTTP_404_NOT_FOUND,
                                          !.detail = "OpenStreetMap way not found",
                                          !.body = HTTPExceptionBody]
                       ELSE [asked EXCEPT !.way = Some(
                               [osm_way_id |-> Get(way_data).osm_way_id,
                                name |-> Get(way_data).name,
                                geometry |-> Get(way_data).geometry,
                                tags |-> Get(way_data).tags])]
            /\ Unchanged

NextOsm ==
    \/ return_response
    \/ create_road
    \/ approve_road
    \/ search_osm_roads
    \/ get_osm_way

SpecOsm == Init /\ [][NextOsm]_vars

\* ------------------------------------------------------------------ claims
\* C21: every feature of the map query carries the road's point location,
\* also when its geometry is the line-string: the location is the feature's
\* Point geometry or is found among the feature's properties.
C21_FeatureCarriesLocation ==
    (resp.op = "get_roads_geojson" /\ resp.status = 200)
       => \A i \in 1..Len(resp.ids) :
             \/ /\ resp.features[i].type = "Point"
                /\ resp.features[i].coordinates = roads[resp.ids[i]].location.coordinates
             \/ "location" \in DOMAIN resp.properties[i]

C21_Witness ==
    /\ resp.op = "get_roads_geojson"
    /\ resp.status = 200
    /\ Len(resp.ids) = 1
    /\ roads[resp.ids[1]].has_osm_data = TRUE
    /\ resp.features[1].type = "LineString"
    /\ Len(resp.features[1].coordinates) = 3
    /\ resp.features[1].coordinates # roads[resp.ids[1]].location.coordinates
    /\ DOMAIN resp.properties[1] = {"id", "road_name", "contractor", "status",
                                    "total_cost", "has_info", "has_osm_data", "osm_way_id"}

\* C22: in every feature of the map query the has_osm_data property is a
\* boolean, true exactly when the feature's geometry is the line-string;
\* it is never the geometry object and never null.
C22_HasOsmDataIsBoolean ==
    (resp.op = "get_roads_geojson" /\ resp.status = 200)
       => \A i \in 1..Len(resp.ids) :
             /\ resp.properties[i].has_osm_data.json = "boolean"
             /\ resp.properties[i].has_osm_data.bool = (resp.features[i].type = "LineString")

C22_Witness ==
    /\ resp.op = "get_roads_geojson"
    /\ resp.status = 200
    /\ Len(resp.ids) = 1
    /\ resp.features[1].type = "LineString"
    /\ resp.properties[1].has_osm_data.json = "object"
    /\ resp.properties[1].has_osm_data.object = Some(resp.features[1])

\* the free-text fields of a road, and the payload every create submits
DescriptiveFields == {"road_name", "contractor", "approved_by", "total_cost",
                      "promised_completion_date", "actual_completion_date",
                      "maintenance_firm", "status"}
Submitted == RoadCreate(None, None)

\* C23 as stated: a fetch by id of a road that is still as create stored it
\* (the fetch follows the create) returns the road with the descriptive
\* fields and extra_fields that were submitted and with created_at equal to
\* updated_at.
C23_CreateThenFetchRoundTrip ==
    (/\ resp.op = "get_road_by_id"
     /\ Stored(resp.road_id)
     /\ roads[resp.road_id].approved = FALSE
     /\ roads[resp.road_id].images = << >>
     /\ \A k \in DescriptiveFields \cup {"extra_fields"} :
           roads[resp.road_id][k] = Submitted[k])
       => /\ resp.status = 200
          /\ resp.road # None
          /\ \A k \in DescriptiveFields \cup {"extra_fields"} :
                Get(resp.road)[k] = Submitted[k]
          /\ Get(resp.road).created_at = Get(resp.road).updated_at

\* C23: create stores the submitted descriptive fields, location and
\* extra_fields with created_at <= updated_at; approval changes none of them
\* nor created_at; a fetch by id answers not-found for a stored road that is
\* pending, and for an approved road returns what the store holds (location
\* as lat/lng, timestamps as triples); created_at <= updated_at holds for
\* every stored road.
C23_ApprovedFetchRoundTrip ==
    /\ [][(resp'.op = "create_road" /\ resp'.status = 201)
            => LET road == roads'[resp'.road_id]
               IN /\ \A k \in DescriptiveFields \cup {"extra_fields"} :
                        road[k] = Submitted[k]
                  /\ road.location.coordinates = <<Submitted.location.lng,
                                                   Submitted.location.lat>>
                  /\ road.created_at <= road.updated_at]_vars
    /\ [][(resp'.op = "approve_road" /\ resp'.status = 200)
            => \A k \in DescriptiveFields \cup {"extra_fields", "location", "created_at"} :
                  roads'[resp'.road_id][k] = roads[resp'.road_id][k]]_vars
    /\ []((resp.op = "get_road_by_id" /\ Stored(resp.road_id))
            => IF roads[resp.road_id].approved = FALSE
               THEN resp.status = 404 /\ resp.road = None
               ELSE LET road == roads[resp.road_id]
                        body == Get(resp.road)
                    IN /\ resp.status = 200
                       /\ \A k \in DescriptiveFields \cup {"extra_fields"} :
                             body[k] = road[k]
                       /\ body.location = [lat |-> road.location.coordinates[2],
                                           lng |-> road.location.coordinates[1]]
                       /\ body.created_at.timestamp = road.created_at
                       /\ body.updated_at.timestamp = road.updated_at
                       /\ body.created_at.timestamp <= body.updated_at.timestamp)
    /\ [](\A id \in DOMAIN roads : roads[id].created_at <= roads[id].updated_at)

C23_Witness ==
    /\ resp.op = "get_road_by_id"
    /\ resp.status = 200
    /\ Get(resp.road).road_name = Submitted.road_name
    /\ Get(resp.road).location = Submitted.location
    /\ Get(resp.road).added_by_user = "alice"
    /\ Get(resp.road).created_at.timestamp < Get(resp.road).updated_at.timestamp

\* C24: every error outcome of every operation is returned as the standard
\* envelope {status, message, data}.
C24_ErrorsUseEnvelope ==
    resp.status >= 400 => resp.body = {"status", "message", "data"}

C24_Witness ==
    /\ resp.op = "get_road_by_id"
    /\ resp.status = 404
    /\ resp.detail = "Road not found"
    /\ resp.body = {"detail"}

\* C26: the blob-store delete never raises to its caller: every call made
\* during a rejection returned true or false.
C26_DeleteNeverRaises ==
    \A i \in 1..Len(resp.deletes) : resp.deletes[i].outcome \in {"deleted", "false"}

C26_Witness ==
    /\ resp.op = "reject_road"
    /\ Len(resp.deletes) = 1
    /\ resp.deletes[1].outcome = "raised"
    /\ resp.deletes[1].url \in blobs

\* C25: at most 10 blob-store calls are in flight at any moment, for any
\* number of concurrent uploads and deletions; every call that arrived is
\* waiting at the gate, in flight or finished (none is failed or dropped);
\* and a call that arrives while 10 are in flight joins the waiters.
C25_GateAdmitsAtMostTen ==
    /\ [](/\ Cardinality(gate.in_flight) <= 10
          /\ LET waiting == {gate.waiters[i] : i \in 1..Len(gate.waiters)}
             IN /\ waiting \cup gate.in_flight \cup gate.done = 1..gate.arrived
                /\ Cardinality(waiting) = Len(gate.waiters)
                /\ waiting \cap gate.in_flight = {}
                /\ waiting \cap gate.done = {}
                /\ gate.in_flight \cap gate.done = {})
    /\ [][(Cardinality(gate.in_flight) = 10 /\ gate'.arrived = gate.arrived + 1)
            => /\ gate'.waiters = Append(gate.waiters, gate'.arrived)
               /\ gate'.in_flight = gate.in_flight
               /\ gate'.done = gate.done]_vars

C25_Witness ==
    /\ Cardinality(gate.in_flight) = 10
    /\ gate.waiters = <<11>>
    /\ gate.arrived = 11
    /\ gate.last \in {"put_object", "delete_object"}

\* C27: the importer inserts a road for a way only when no stored road,
\* approved or pending, has that osm_way_id; every road it inserts is
\* approved, has has_osm_data true and a geometry with coordinates; it leaves
\* every other road as it was; and the store never holds two roads of the
\* importer with the same osm_way_id.
C27_ImporterDedupes ==
    /\ [][resp'.op = "import_road"
            => /\ \A id \in Inserted :
                    /\ ~\E other \in DOMAIN roads :
                          roads[other].osm_way_id = roads'[id].osm_way_id
                    /\ roads'[id].osm_way_id = resp'.osm_way_id
                    /\ roads'[id].approved = TRUE
                    /\ roads'[id].has_osm_data = TRUE
                    /\ roads'[id].geometry # None
                    /\ Get(roads'[id].geometry).coordinates # << >>
               /\ \A id \in DOMAIN roads : id \in DOMAIN roads' /\ roads'[id] = roads[id]]_vars
    /\ [](\A a, b \in DOMAIN roads :
            (/\ roads[a].added_by_user = "WhoBuiltMyRoad"
             /\ roads[b].added_by_user = "WhoBuiltMyRoad"
             /\ roads[a].osm_way_id = roads[b].osm_way_id) => a = b)

C27_Witness ==
    /\ resp.op = "import_road"
    /\ resp.osm_way_id = Some("w1")
    /\ resp.road_id = MalformedId
    /\ DOMAIN roads = {1}
    /\ roads[1].added_by_user = "alice"
    /\ roads[1].approved = FALSE
    /\ roads[1].osm_way_id = Some("w1")
    /\ roadsIssued < ImportCapacity

\* a string holds a '<' with a '>' somewhere after it
HasTag(v) == \E i, j \in 1..Len(v) : i < j /\ v[i] = "<" /\ v[j] = ">"

\* a string starts or ends with a blank
HasOuterBlank(v) == v # << >> /\ (v[1] = " " \/ v[Len(v)] = " ")

\* C28: every free-text field of a road that create or update stores (name,
\* contractor, approving authority, cost, promised and actual completion
\* date, maintenance firm, status) and every stored feedback comment holds no
\* `<...>` substring and neither starts nor ends with whitespace.
C28_StoredTextIsSanitized ==
    call.fn \in {"RoadCreate", "RoadUpdate", "FeedbackCreate"}
       => ~HasTag(call.output) /\ ~HasOuterBlank(call.output)

C28_Witness ==
    /\ call.fn = "RoadCreate"
    /\ call.field = "total_cost"
    /\ call.input = <<"<", "a", ">">>
    /\ call.output = <<"<", "a", ">">>

\* C29: a name search whose query has fewer than 2 characters after trimming
\* is answered 400 and the Overpass search is not called; the radius handed
\* to the search is the requested one, but never more than 50000; the results
\* hold every way id at most once; the name of every result is the first of
\* the tags name, ref, alt_name that is there.
C29_SearchContract ==
    resp.op = "search_osm_roads"
       => LET solid == {i \in 1..Len(resp.query) : resp.query[i] # " "}
              trimmed == IF solid = {} THEN 0
                         ELSE 1 + (CHOOSE i \in solid : \A j \in solid : i >= j)
                                - (CHOOSE i \in solid : \A j \in solid : i <= j)
          IN /\ trimmed < 2 => /\ resp.status = 400
                               /\ resp.searched = None
                               /\ resp.results = << >>
             /\ trimmed >= 2 =>
                  /\ resp.searched # None
                  /\ Get(resp.searched) <= 50000
                  /\ Get(resp.searched) = Min(Get(resp.radius), 50000)
             /\ \A i, j \in 1..Len(resp.results) :
                   resp.results[i].osm_way_id = resp.results[j].osm_way_id => i = j
             /\ \A i \in 1..Len(resp.results) :
                   LET tags == resp.results[i].tags
                   IN resp.results[i].name =
                        IF tags.name # None THEN Get(tags.name)
                        ELSE IF tags.ref # None THEN Get(tags.ref)
                        ELSE IF tags.alt_name # None THEN Get(tags.alt_name)
                        ELSE "Unnamed Road"

C29_Witness ==
    /\ resp.op = "search_osm_roads"
    /\ resp.status = 200
    /\ resp.radius = Some(50001)
    /\ resp.searched = Some(50000)
    /\ Len(resp.results) = 2
    /\ resp.results[1].name = "NH 44"
    /\ resp.results[2].name = "SH 1"

\* C30: both OSM endpoints, the name search and the way by id, give every
\* way they return a flag that is true exactly when the store holds an
\* approved road with that osm_way_id.
C30_BothEndpointsFlagOurData ==
    (resp.op \in {"search_osm_roads", "get_osm_way"} /\ resp.status = 200)
       => LET ways == IF resp.op = "get_osm_way" THEN <<Get(resp.way)>> ELSE resp.results
          IN \A i \in 1..Len(ways) :
                /\ "has_our_data" \in DOMAIN ways[i]
                /\ ways[i].has_our_data =
                     \E id \in DOMAIN roads :
                        /\ roads[id].osm_way_id = Some(ways[i].osm_way_id)
                        /\ roads[id].approved = TRUE

C30_Witness ==
    /\ resp.op = "get_osm_way"
    /\ resp.status = 200
    /\ Get(resp.way).osm_way_id = "w1"
    /\ \E id \in DOMAIN roads : roads[id].osm_way_id = Some("w1") /\ roads[id].approved = TRUE
    /\ DOMAIN Get(resp.way) = {"osm_way_id", "name", "geometry", "tags"}

\* C32: no operation changes the created_at or the added_by_user of a stored
\* road, also when the road is updated by a user who did not create it; every
\* accepted update, approval and image upload leaves the road's updated_at at
\* the clock reading of that operation.
C32_CreationStampsAreFrozen ==
    /\ [][\A id \in DOMAIN roads' \cap DOMAIN roads :
             /\ roads'[id].created_at = roads[id].created_at
             /\ roads'[id].added_by_user = roads[id].added_by_user]_vars
    /\ [][(/\ resp = NoRequest
           /\ resp'.op \in {"update_road", "approve_road", "upload_road_image"}
           /\ resp'.status \in {200, 201})
            => /\ resp'.road_id \in DOMAIN roads'
               /\ now' \in {now, now + 1}
               /\ roads'[resp'.road_id].updated_at = now']_vars

\* alice's update of a road the importer created was accepted at a later
\* reading of the clock than the import
C32_Witness ==
    /\ resp.op = "update_road"
    /\ resp.status = 200
    /\ resp.token = "jwt-u1"
    /\ roads[resp.road_id].added_by_user = "WhoBuiltMyRoad"
    /\ roads[resp.road_id].road_name = "n2"
    /\ roads[resp.road_id].created_at < roads[resp.road_id].updated_at
    /\ roads[resp.road_id].updated_at = now

\* what the public reads serve of a road: the descriptive fields, location,
\* extra_fields, the OSM fields and the image list
PublicContent == {"road_name", "contractor", "approved_by", "total_cost",
                  "promised_completion_date", "actual_completion_date",
                  "maintenance_firm", "status", "location", "extra_fields",
                  "osm_way_id", "geometry", "has_osm_data", "images"}

\* C37: a road that is approved before and after a step serves the same
\* content to the public: descriptive fields, location, extra_fields, OSM
\* fields and image list change only on a road that becomes pending.
C37_PublicContentIsApprovedContent ==
    [][\A id \in DOMAIN roads' \cap DOMAIN roads :
          (roads[id].approved = TRUE /\ roads'[id].approved = TRUE)
             => \A k \in PublicContent : roads'[id][k] = roads[id][k]]_vars

\* an image was uploaded to an approved road, and the fetch by id that
\* follows serves it
C37_Witness ==
    /\ resp.op = "get_road_by_id"
    /\ resp.status = 200
    /\ roads[resp.road_id].approved = TRUE
    /\ Get(resp.road).images # << >>

\* ================================== handlers interleaved at their awaits
\* Every `await` on the store, the OSM collaborator or the blob store hands
\* the event loop to the other requests.  A handler is one action per
\* stretch of code between two awaits; the requests are authenticated (the
\* dependencies ran before the handler body).

\* update payloads: no field, road_name, road_name and status, a way id
\* without geometry (the handler awaits the OSM lookup)
ConcUpdateInputs ==
    { RoadUpdate(None, None, None, None),
      RoadUpdate(Some("n2"), None, None, None),
      RoadUpdate(Some("n3"), Some("s2"), None, None),
      RoadUpdate(None, None, Some("w1"), None) }

\* the requests are for the road of InitConc, with an image that passes the checks
ConcRoadIds == {1}
ConcFiles == {file \in Files : /\ file.content_type \in allowed_image_types_list
                               /\ file.size <= max_image_size_bytes}

\* what the lookup of an interleaved update meets: the way, or the service down
ConcOverpass == {o \in OverpassOutcomes :
                    \/ o.elements = <<WayElement>>
                    \/ o.detail = "Overpass API service temporarily unavailable"}

\* the request answered: it returned, or raised the HTTPException
Done(t, status, detail) ==
    [t EXCEPT !.pc = "done", !.status = status, !.detail = detail, !.road_data = None]

\* the requests after the write of request p, which is now t, reached the
\* road (matched) or found none: the others that read the road before it
\* and wait at an await before their own write have missed this write
AfterWrite(p, t, matched) ==
    LET BeforeWrite == {"get_way_by_id", "update_one", "upload_file",
                        "insert_one", "delete_one"} IN
    [q \in Procs |->
        IF q = p THEN [t EXCEPT !.matched = Some(IF matched THEN 1 ELSE 0), !.latest = matched]
        ELSE IF matched /\ tasks[q].road_id = t.road_id
             THEN [tasks[q] EXCEPT !.latest = FALSE,
                                   !.missed = IF tasks[q].pc \in BeforeWrite
                                              THEN @ \cup {t.op} ELSE @]
             ELSE tasks[q]]

\* feedback rows / blob names that requests past their check will still ask for
Pending(pc) == Cardinality({q \in Procs : tasks[q].pc = pc})

\* one pending road, as create_road stored it for alice and as her upload of
\* one image left it; the clock is at the last reading the model follows
InitConc ==
    /\ roads = [id \in {1} |->
                  [create_road_dict(RoadCreate(None, None), "alice",
                                    CreateReconcile(None, None, None), 0, 0)
                     EXCEPT !.images = <<1>>]]
    /\ feedback = << >>
    /\ roadsIssued = 1
    /\ feedbackIssued = 0
    /\ blobs = {1}
    /\ blobsIssued = 1
    /\ now = MaxClock
    /\ resp = NoRequest
    /\ gate = GateInit
    /\ call = NoCall
    /\ tasks = NoTasks

\* ---- PUT /roads/{road_id}
\* up to `await db.roads.find_one`, and on to the next await: the lookup, or
\* update_one with update_fields complete (approved and updated_at added)
update_road_find(p) ==
    /\ tasks[p].pc = "idle"
    /\ \E road_id \in ConcRoadIds, road_data \in ConcUpdateInputs,
          updated_at \in ClockReadings(now) :
         LET t == [Task("update_road", "find_one", road_id) EXCEPT !.road_data = Some(road_data)]
             fields == update_fields(road_data, None)
         IN IF road_id \notin DOMAIN roads
            THEN /\ tasks' = [tasks EXCEPT ![p] = Done(t, HTTP_404_NOT_FOUND, "Road not found")]
                 /\ now' = now
            ELSE IF UpdateLookup(road_data)
            THEN /\ tasks' = [tasks EXCEPT ![p] = [t EXCEPT !.pc = "get_way_by_id"]]
                 /\ now' = now
            ELSE IF NoFieldsToUpdate(fields)
            THEN /\ tasks' = [tasks EXCEPT ![p] = Done(t, HTTP_400_BAD_REQUEST,
                                                       "No fields to update")]
                 /\ now' = now
            ELSE /\ tasks' = [tasks EXCEPT ![p] =
                                [t EXCEPT !.pc = "update_one",
                                          !.fields = fields @@ UpdateModeration(updated_at)]]
                 /\ now' = updated_at
    /\ UNCHANGED <<roads, feedback, roadsIssued, feedbackIssued, blobs, blobsIssued, resp, gate, call>>

\* `await get_way_by_id` returned or raised
update_road_lookup(p) ==
    /\ tasks[p].op = "update_road"
    /\ tasks[p].pc = "get_way_by_id"
    /\ \E overpass \in ConcOverpass, updated_at \in ClockReadings(now) :
         IF LookupRaised(overpass)
         THEN /\ tasks' = [tasks EXCEPT ![p] = Done(@, overpass.status, overpass.detail)]
              /\ now' = now
         ELSE /\ tasks' = [tasks EXCEPT ![p] =
                             [@ EXCEPT !.pc = "update_one",
                                       !.fields = update_fields(Get(tasks[p].road_data),
                                                                get_way_by_id(overpass))
                                                    @@ UpdateModeration(updated_at)]]
              /\ now' = updated_at
    /\ UNCHANGED <<roads, feedback, roadsIssued, feedbackIssued, blobs, blobsIssued, resp, gate, call>>

\* the store applies update_one({"_id": ...}, {"$set": update_fields}) and
\* the handler returns "Road update submitted for approval"
update_road_write(p) ==
    /\ tasks[p].op = "update_road"
    /\ tasks[p].pc = "update_one"
    /\ roads' = UpdateOne(tasks[p].road_id, tasks[p].fields)
    /\ tasks' = AfterWrite(p, Done(tasks[p], HTTP_200_OK, ""), tasks[p].road_id \in DOMAIN roads)
    /\ UNCHANGED <<feedback, roadsIssued, feedbackIssued, blobs, blobsIssued, now, resp, gate, call>>

\* ---- POST /admin/approve/{road_id}
\* find_one, the two checks, and on to update_one
approve_road_find(p) ==
    /\ tasks[p].pc = "idle"
    /\ \E road_id \in ConcRoadIds, updated_at \in ClockReadings(now) :
         LET t == Task("approve_road", "find_one", road_id)
         IN IF road_id \notin DOMAIN roads
            THEN /\ tasks' = [tasks EXCEPT ![p] = Done(t, HTTP_404_NOT_FOUND, "Road not found")]
                 /\ now' = now
            ELSE IF AlreadyApproved(roads[road_id])
            THEN /\ tasks' = [tasks EXCEPT ![p] = Done(t, HTTP_400_BAD_REQUEST,
                                                       "Road is already approved")]
                 /\ now' = now
            ELSE /\ tasks' = [tasks EXCEPT ![p] =
                                [t EXCEPT !.pc = "update_one",
                                          !.fields = ApproveFields(updated_at)]]
                 /\ now' = updated_at
    /\ UNCHANGED <<roads, feedback, roadsIssued, feedbackIssued, blobs, blobsIssued, resp, gate, call>>

\* the store applies the approving update_one
approve_road_write(p) ==
    /\ tasks[p].op = "approve_road"
    /\ tasks[p].pc = "update_one"
    /\ roads' = UpdateOne(tasks[p].road_id, tasks[p].fields)
    /\ tasks' = AfterWrite(p, [tasks[p] EXCEPT !.pc = "find_one_updated"],
                           tasks[p].road_id \in DOMAIN roads)
    /\ UNCHANGED <<feedback, roadsIssued, feedbackIssued, blobs, blobsIssued, now, resp, gate, call>>

\* find_one of the updated road and road_to_response: of None it raises a
\* TypeError, which the handler for Exception answers with 500
approve_road_return(p) ==
    /\ tasks[p].op = "approve_road"
    /\ tasks[p].pc = "find_one_updated"
    /\ tasks' = [tasks EXCEPT ![p] =
                   IF tasks[p].road_id \in DOMAIN roads
                   THEN Done(@, HTTP_200_OK, "")
                   ELSE Done(@, HTTP_500_INTERNAL_SERVER_ERROR, "An unexpected error occurred")]
    /\ UNCHANGED <<roads, feedback, roadsIssued, feedbackIssued, blobs, blobsIssued, now, resp, gate, call>>

\* ---- DELETE /admin/reject/{road_id}
\* find_one and the loop over road["images"] (the blob store holds no road
\* data, so the loop is taken as one step), on to delete_one
reject_road_find(p) ==
    /\ tasks[p].pc = "idle"
    /\ \E road_id \in ConcRoadIds :
         LET t == Task("reject_road", "find_one", road_id)
         IN IF road_id \notin DOMAIN roads
            THEN /\ tasks' = [tasks EXCEPT ![p] = Done(t, HTTP_404_NOT_FOUND, "Road not found")]
                 /\ blobs' = blobs
            ELSE LET images == roads[road_id].images
                 IN \E outcomes \in [1..Len(images) -> DeleteOutcomes] :
                      LET attempts == DeleteAttempts(images, outcomes)
                      IN /\ blobs' = blobs \ {attempts[i].url : i \in
                                        {j \in 1..Len(attempts) : attempts[j].outcome = "deleted"}}
                         /\ tasks' = [tasks EXCEPT ![p] = [t EXCEPT !.pc = "delete_one"]]
    /\ UNCHANGED <<roads, feedback, roadsIssued, feedbackIssued, blobsIssued, now, resp, gate, call>>

\* the store applies delete_one
reject_road_delete_one(p) ==
    /\ tasks[p].op = "reject_road"
    /\ tasks[p].pc = "delete_one"
    /\ roads' = DeleteOne(tasks[p].road_id)
    /\ tasks' = AfterWrite(p, [tasks[p] EXCEPT !.pc = "delete_many"],
                           tasks[p].road_id \in DOMAIN roads)
    /\ UNCHANGED <<feedback, roadsIssued, feedbackIssued, blobs, blobsIssued, now, resp, gate, call>>

\* the store applies delete_many on the feedback and the handler returns
reject_road_delete_many(p) ==
    /\ tasks[p].op = "reject_road"
    /\ tasks[p].pc = "delete_many"
    /\ feedback' = DeleteManyFeedback(tasks[p].road_id)
    /\ tasks' = [tasks EXCEPT ![p] = Done(@, HTTP_200_OK, "")]
    /\ UNCHANGED <<roads, roadsIssued, feedbackIssued, blobs, blobsIssued, now, resp, gate, call>>

\* ---- POST /roads/{road_id}/feedback
\* find_one of the approved road, feedback_dict, on to insert_one
add_feedback_find(p) ==
    /\ tasks[p].pc = "idle"
    /\ feedbackIssued + Pending("insert_one") < MaxFeedback
    /\ \E road_id \in ConcRoadIds, comment \in Comments, date \in ClockReadings(now) :
         LET t == Task("add_feedback", "find_one", road_id)
         IN IF ~FindApproved(road_id)
            THEN /\ tasks' = [tasks EXCEPT ![p] = Done(t, HTTP_404_NOT_FOUND, "Road not found")]
                 /\ now' = now
            ELSE /\ tasks' = [tasks EXCEPT ![p] =
                                [t EXCEPT !.pc = "insert_one",
                                          !.fields = [road_id |-> road_id, user |-> "alice",
                                                      comment |-> comment, date |-> date]]]
                 /\ now' = date
    /\ UNCHANGED <<roads, feedback, roadsIssued, feedbackIssued, blobs, blobsIssued, resp, gate, call>>

\* the store applies insert_one
add_feedback_insert(p) ==
    /\ tasks[p].op = "add_feedback"
    /\ tasks[p].pc = "insert_one"
    /\ feedback' = InsertFeedback(tasks[p].fields)
    /\ feedbackIssued' = feedbackIssued + 1
    /\ tasks' = [tasks EXCEPT ![p] = [@ EXCEPT !.pc = "find_one_created",
                                               !.inserted_id = Some(feedbackIssued + 1)]]
    /\ UNCHANGED <<roads, roadsIssued, blobs, blobsIssued, now, resp, gate, call>>

\* find_one of the created feedback and the FeedbackResponse: of None it
\* raises a TypeError, answered with 500
add_feedback_return(p) ==
    /\ tasks[p].op = "add_feedback"
    /\ tasks[p].pc = "find_one_created"
    /\ tasks' = [tasks EXCEPT ![p] =
                   IF Get(tasks[p].inserted_id) \in DOMAIN feedback
                   THEN Done(@, HTTP_201_CREATED, "")
                   ELSE Done(@, HTTP_500_INTERNAL_SERVER_ERROR, "An unexpected error occurred")]
    /\ UNCHANGED <<roads, feedback, roadsIssued, feedbackIssued, blobs, blobsIssued, now, resp, gate, call>>

\* ---- POST /roads/{road_id}/image
\* find_one, the checks of the file, on to upload_file
upload_road_image_find(p) ==
    /\ tasks[p].pc = "idle"
    /\ blobsIssued + Pending("upload_file") < MaxBlobs
    /\ \E road_id \in ConcRoadIds, file \in ConcFiles :
         LET t == Task("upload_road_image", "find_one", road_id)
         IN tasks' = [tasks EXCEPT ![p] =
               IF road_id \notin DOMAIN roads
               THEN Done(t, HTTP_404_NOT_FOUND, "Road not found")
               ELSE IF file.content_type \notin allowed_image_types_list
               THEN Done(t, HTTP_400_BAD_REQUEST, "Invalid file type")
               ELSE IF file.size > max_image_size_bytes
               THEN Done(t, HTTP_400_BAD_REQUEST, "File size too large")
               ELSE [t EXCEPT !.pc = "upload_file"]]
    /\ UNCHANGED <<roads, feedback, roadsIssued, feedbackIssued, blobs, blobsIssued, now, resp, gate, call>>

\* `await r2_storage.upload_file` returned the url or raised; on to update_one
upload_road_image_upload(p) ==
    /\ tasks[p].op = "upload_road_image"
    /\ tasks[p].pc = "upload_file"
    /\ \E outcome \in UploadOutcomes, updated_at \in ClockReadings(now) :
         IF outcome = "raised"
         THEN /\ tasks' = [tasks EXCEPT ![p] = Done(@, HTTP_500_INTERNAL_SERVER_ERROR,
                                                    "Failed to upload image")]
              /\ UNCHANGED <<blobs, blobsIssued, now>>
         ELSE /\ blobsIssued' = blobsIssued + 1
              /\ blobs' = blobs \cup {blobsIssued + 1}
              /\ now' = updated_at
              /\ tasks' = [tasks EXCEPT ![p] =
                             [@ EXCEPT !.pc = "update_one",
                                       !.image_url = Some(blobsIssued + 1),
                                       !.fields = [updated_at |-> Some(updated_at)]]]
    /\ UNCHANGED <<roads, feedback, roadsIssued, feedbackIssued, resp, gate, call>>

\* the store applies the $push / $set and the handler returns
\* "Image uploaded successfully"
upload_road_image_push(p) ==
    /\ tasks[p].op = "upload_road_image"
    /\ tasks[p].pc = "update_one"
    /\ roads' = PushImage(tasks[p].road_id, Get(tasks[p].image_url),
                          Get(tasks[p].fields.updated_at))
    /\ tasks' = AfterWrite(p, Done(tasks[p], HTTP_201_CREATED, ""),
                           tasks[p].road_id \in DOMAIN roads)
    /\ UNCHANGED <<feedback, roadsIssued, feedbackIssued, blobs, blobsIssued, now, resp, gate, call>>

\* the response of a finished request went out
task_return(p) ==
    /\ tasks[p].pc = "done"
    /\ tasks' = [tasks EXCEPT ![p] = NoTasks[p]]
    /\ UNCHANGED <<roads, feedback, roadsIssued, feedbackIssued, blobs, blobsIssued, now, resp, gate, call>>

NextConc ==
    \E p \in Procs :
       \/ update_road_find(p)
       \/ update_road_lookup(p)
       \/ update_road_write(p)
       \/ approve_road_find(p)
       \/ approve_road_write(p)
       \/ approve_road_return(p)
       \/ reject_road_find(p)
       \/ reject_road_delete_one(p)
       \/ reject_road_delete_many(p)
       \/ add_feedback_find(p)
       \/ add_feedback_insert(p)
       \/ add_feedback_return(p)
       \/ upload_road_image_find(p)
       \/ upload_road_image_upload(p)
       \/ upload_road_image_push(p)
       \/ task_return(p)

SpecConc == InitConc /\ [][NextConc]_vars

\* --------------------------------------------- claims on interleavings
\* a request that has returned
Finished(p, op) == tasks[p].op = op /\ tasks[p].pc = "done"

\* nothing is in progress
Quiet == \A p \in Procs : tasks[p].pc \in {"idle", "done"}

\* C31: the write of an accepted update sets every field of its
\* update_fields, approved = false and updated_at among them, in one step
\* and leaves the other fields of the road as they were; when the write of
\* another accepted update fell between the read and the write of this one
\* and is the last write the road received, the road is pending after both
\* and every field holds what the later write set, or else what the earlier
\* write set.
C31_UpdateWritesAreAtomic ==
    /\ [][\A p \in Procs :
            (/\ tasks[p].op = "update_road"
             /\ tasks[p].pc = "update_one"
             /\ tasks'[p].pc = "done"
             /\ tasks[p].road_id \in DOMAIN roads)
              => LET id == tasks[p].road_id
                     set == tasks[p].fields
                 IN /\ tasks'[p].status = 200
                    /\ id \in DOMAIN roads'
                    /\ roads'[id].approved = FALSE
                    /\ roads'[id].updated_at = Get(set.updated_at)
                    /\ \A k \in DOMAIN roads[id] :
                          roads'[id][k] = IF k \in DOMAIN set /\ set[k] # None
                                          THEN Get(set[k]) ELSE roads[id][k]]_vars
    /\ [][\A later, earlier \in Procs :
            (/\ later # earlier
             /\ tasks[later].op = "update_road"
             /\ tasks[later].pc = "update_one"
             /\ tasks'[later].pc = "done"
             /\ tasks[later].road_id \in DOMAIN roads
             /\ "update_road" \in tasks[later].missed
             /\ Finished(earlier, "update_road") /\ tasks[earlier].status = 200
             /\ tasks[earlier].road_id = tasks[later].road_id
             /\ tasks[earlier].latest)
              => LET id == tasks[later].road_id
                 IN /\ tasks'[later].latest
                    /\ roads'[id].approved = FALSE
                    /\ \A k \in DOMAIN tasks[later].fields :
                          IF tasks[later].fields[k] # None
                          THEN roads'[id][k] = Get(tasks[later].fields[k])
                          ELSE tasks[earlier].fields[k] # None
                                  => roads'[id][k] = Get(tasks[earlier].fields[k])]_vars

\* two updates overlapped; the later write set road_name only, the earlier
\* one road_name and status: the road has the later name, the earlier status
C31_Witness ==
    \E later, earlier \in Procs :
       /\ Finished(later, "update_road") /\ Finished(earlier, "update_road")
       /\ tasks[later].latest
       /\ "update_road" \in tasks[later].missed
       /\ tasks[later].fields.road_name = Some("n2")
       /\ tasks[later].fields.status = None
       /\ tasks[earlier].fields.road_name = Some("n3")
       /\ tasks[earlier].fields.status = Some("s2")
       /\ tasks[earlier].matched = Some(1)
       /\ roads[1].road_name = "n2"
       /\ roads[1].status = "s2"
       /\ roads[1].approved = FALSE

\* C33: of two approve requests for a road that were handled at the same
\* time with no edit in between, one returns success and the other the
\* already-approved error.
C33_OneApproveSucceeds ==
    \A p, q \in Procs :
       (/\ p # q
        /\ Finished(p, "approve_road") /\ Finished(q, "approve_road")
        /\ tasks[p].road_id = tasks[q].road_id
        /\ tasks[q].missed = {"approve_road"})
         => /\ tasks[p].status = 200
            /\ tasks[q].status = 400
            /\ tasks[q].detail = "Road is already approved"

\* both approve requests returned success; the second wrote to a road the
\* first had approved after the second's check
C33_Witness ==
    \E p, q \in Procs :
       /\ p # q
       /\ Finished(p, "approve_road") /\ tasks[p].status = 200
       /\ Finished(q, "approve_road") /\ tasks[q].status = 200
       /\ tasks[q].missed = {"approve_road"}
       /\ roads[1].approved = TRUE

\* C34: when an approve request and an update request for a road have both
\* returned and the update's write reached the road after the approve
\* request's check, the road is pending.
C34_UnseenEditStaysPending ==
    \A a, u \in Procs :
       (/\ Finished(a, "approve_road")
        /\ Finished(u, "update_road") /\ tasks[u].status = 200
        /\ tasks[u].matched = Some(1)
        /\ tasks[a].road_id = tasks[u].road_id
        /\ ("update_road" \in tasks[a].missed \/ tasks[u].latest)
        /\ tasks[a].road_id \in DOMAIN roads)
         => roads[tasks[a].road_id].approved = FALSE

\* the approve succeeded on a road whose name the update changed after the
\* approve's check: the new name is public
C34_Witness ==
    \E a, u \in Procs :
       /\ Finished(a, "approve_road") /\ tasks[a].status = 200
       /\ Finished(u, "update_road") /\ tasks[u].status = 200
       /\ tasks[a].missed = {"update_road"}
       /\ tasks[u].fields.road_name = Some("n2")
       /\ roads[1].road_name = "n2"
       /\ roads[1].approved = TRUE

\* C35: with no request in progress, the road_id of every feedback row
\* identifies a stored road.
C35_NoOrphanFeedback ==
    Quiet => \A f \in DOMAIN feedback : feedback[f].road_id \in DOMAIN roads

\* a reject and a feedback create for the road both returned success, the
\* road is gone and the feedback row is there
C35_Witness ==
    \E r, f \in Procs :
       /\ Finished(r, "reject_road") /\ tasks[r].status = 200
       /\ Finished(f, "add_feedback") /\ tasks[f].status = 201
       /\ "reject_road" \in tasks[f].missed
       /\ roads = << >>
       /\ feedback # << >>
       /\ feedback[Get(tasks[f].inserted_id)].road_id = tasks[r].road_id

\* C36: no step brings back a road id that is not stored, and an update or
\* image upload that answers success has written to a stored road.
C36_RejectionIsTerminal ==
    /\ [][DOMAIN roads' \subseteq DOMAIN roads]_vars
    /\ [](\A p \in Procs :
            (/\ tasks[p].op \in {"update_road", "upload_road_image"}
             /\ tasks[p].pc = "done"
             /\ tasks[p].status \in {200, 201})
              => tasks[p].matched = Some(1))

\* an update answered success although its write matched no road: the
\* reject deleted the road after the update's check
C36_Witness ==
    \E p \in Procs :
       /\ Finished(p, "update_road")
       /\ tasks[p].status = 200
       /\ tasks[p].matched = Some(0)
       /\ "reject_road" \in tasks[p].missed
       /\ tasks[p].road_id \notin DOMAIN roads

\* C38: sanitizing a sanitized value gives the same value back, and no
\* sanitized value holds a '<' with a '>' somewhere after it, whatever
\* brackets the input nests or overlaps.
C38_SanitizerIsIdempotent ==
    /\ (call.round = 2 /\ call.error = None /\ call.field \in SanitizedFields)
          => call.output = call.input
    /\ (call.round >= 1 /\ call.field \in SanitizedFields \cup {"comment"})
          => \A i, j \in 1..Len(call.output) :
                i < j => ~(call.output[i] = "<" /\ call.output[j] = ">")

\* the nested input "<<>a>" was cut to "a>", and "a>" came back as "a>"
\* from the second validation
C38_Witness ==
    /\ call.round = 2
    /\ call.field = "road_name"
    /\ call.origin = <<"<", "<", ">", "a", ">">>
    /\ call.input = <<"a", ">">>
    /\ call.output = <<"a", ">">>

\* C39: every value the validators hand on for road_name, contractor,
\* approved_by, maintenance_firm, status and for a feedback comment is
\* non-empty.
C39_StoredTextIsNonEmpty ==
    (/\ call.round >= 1
     /\ call.error = None
     /\ call.field \in SanitizedFields \cup {"comment"})
       => Len(call.output) >= 1

\* the payloads "<a>" for road_name and " " for a comment were accepted and
\* are stored as the empty string
C39_Witness ==
    /\ call.error = None
    /\ call.output = << >>
    /\ \/ call.fn = "RoadCreate" /\ call.field = "road_name"
          /\ call.input = <<"<", "a", ">">>
       \/ call.fn = "FeedbackCreate" /\ call.input = <<" ">>

====
